---- MODULE Spec2Model ----
(***************************************************************************)
(* Model of the engine_newPayloadV3 pipeline (crates/rpc/engine/mod.rs)    *)
(* and of the execution adapter (crates/evm/evm.rs) of ethereum_rust.      *)
(*                                                                         *)
(* The Store, the block/header types and the EVM backend live outside the  *)
(* files modelled here; they are modelled from their documented contract.  *)
(* A hash is modelled as the list of the values it commits to (an          *)
(* idealised collision-free hash); 32-byte words are modelled as WordLen    *)
(* bytes.                                                                  *)
(***************************************************************************)
EXTENDS Integers, Sequences, FiniteSets, TLC

\* ------------------------------------------------------------------------
\* Bounds
\* ------------------------------------------------------------------------
\* highest block number of a payload / of a stored header
MaxNumber == 2
\* highest timestamp of a payload
MaxTime == 2
\* number of bytes of a word (32 in the program)
WordLen == 2

\* ------------------------------------------------------------------------
\* Option<T>: None is the empty tuple, Some(x) the one-element tuple
\* ------------------------------------------------------------------------
None == <<>>
Some(x) == <<x>>
IsSome(o) == Len(o) = 1
IsNone(o) == Len(o) = 0
Unwrap(o) == o[1]

\* ------------------------------------------------------------------------
\* Words: U256 values are integers, H256 values are big-endian byte strings
\* ------------------------------------------------------------------------
RECURSIVE Pow256(_)
Pow256(n) == IF n = 0 THEN 1 ELSE 256 * Pow256(n - 1)

\* U256::as_le_slice / to_little_endian: byte i has weight 256^(i-1)
as_le_slice(u) == [i \in 1..WordLen |-> (u \div Pow256(i - 1)) % 256]

\* U256::to_be_bytes / to_big_endian: byte i has weight 256^(WordLen-i)
to_be_bytes(u) == [i \in 1..WordLen |-> (u \div Pow256(WordLen - i)) % 256]

RECURSIVE SumLE(_, _)
SumLE(bytes, i) ==
    IF i > Len(bytes) THEN 0
    ELSE bytes[i] * Pow256(i - 1) + SumLE(bytes, i + 1)

\* U256::from_little_endian
from_little_endian(bytes) == SumLE(bytes, 1)

RECURSIVE SumBE(_, _)
SumBE(bytes, i) ==
    IF i > Len(bytes) THEN 0
    ELSE bytes[i] * Pow256(Len(bytes) - i) + SumBE(bytes, i + 1)

\* U256::from_big_endian
from_big_endian(bytes) == SumBE(bytes, 1)

\* H256::from_uint: the big-endian bytes of the integer
from_uint(u) == to_be_bytes(u)

\* ------------------------------------------------------------------------
\* Addresses, storage keys, code
\* ------------------------------------------------------------------------
\* the nonces a transaction sent for gas estimation may carry
GenericNonces == 0..1

\* Address::create(nonce): the address of the contract a CREATE transaction of
\* caller deploys, a different one for every caller and nonce
create_address(caller, nonce) == 10 * caller + nonce

\* the deployer contract: its code deploys with CREATE2 and a fixed salt, so
\* the contract it deploys has always the same address
Deployer == 3
\* the sender and the callee of the beacon-root system call
SystemAddress == 254
BeaconRootsAddress == 15

\* address 1 is an externally owned account, address 2 is where the deployer
\* puts its contract, the other addresses are those of the deployer, of the
\* contracts address 1 deploys by a CREATE transaction and of the system call
Addrs ==
    {1, 2, Deployer, SystemAddress, BeaconRootsAddress}
        \cup {create_address(1, n) : n \in GenericNonces}
\* storage keys (U256) used by the transactions and by genesis
Keys == {1, 2}
H256Keys == {from_uint(k) : k \in Keys}
\* code hash of the empty code (KECCAK_EMPTY), of the contract code and of the
\* code of the deployer
EmptyCodeHash == <<0>>
ContractCodeHash == <<1>>
ContractCode == <<96, 0>>
DeployerCodeHash == <<2>>
DeployerCode == <<245>>
CodeHashes == {EmptyCodeHash, ContractCodeHash, DeployerCodeHash}

\* ------------------------------------------------------------------------
\* Blocks and hashes (ethereum_rust_core::types)
\* ------------------------------------------------------------------------
\* BlockHeader::compute_block_hash: the hash commits to every header field;
\* the model's hash is the list of the committed values.
compute_block_hash(header) ==
    <<header.number, header.timestamp, Len(header.transactions_root)>>
        \o header.transactions_root \o header.parent_hash

\* a hash that is the hash of no header
UnknownHash == <<255>>

GenesisHeader ==
    [number |-> 0, timestamp |-> 0, parent_hash |-> <<>>, transactions_root |-> <<>>]

\* validate_block_header(header, parent_header): parent hash, consecutive
\* number and strictly increasing timestamp (the gas-limit, base-fee and
\* extra-data fields are not part of the model's header)
validate_block_header(header, parent_header) ==
    /\ header.parent_hash = compute_block_hash(parent_header)
    /\ header.number = parent_header.number + 1
    /\ header.timestamp > parent_header.timestamp

\* a subtraction that gives the distance of a and b when a is below b
saturating_sub_distance(a, b) == IF a >= b THEN a - b ELSE b - a

\* u64::saturating_sub
saturating_sub(a, b) == IF a >= b THEN a - b ELSE 0

\* ------------------------------------------------------------------------
\* Transactions.  A payload carries encoded transactions; encoding 0 does
\* not decode.  A decoded transaction is sent by `sender` with `nonce` to the
\* account `to` (Some(address) is TxKind::Call, None is TxKind::Create); `op`
\* is what its input asks of the code that runs, `target` the account the
\* operation is about:
\*   "create"          the deployer does CREATE2 of the contract at target,
\*                     whose init code writes key:=val
\*   "create_destroy"  the deployer does CREATE2 at target, and the init code
\*                     does SELFDESTRUCT in the same transaction
\*   "sstore"          the contract at target does SSTORE(key, val)
\* ------------------------------------------------------------------------
MalformedTx == 0

TxTable ==
    <<[sender |-> 1, nonce |-> 0, to |-> Some(Deployer), op |-> "create_destroy",
       target |-> 2, key |-> 1, val |-> 0, blob_versioned_hashes |-> <<>>],
      [sender |-> 1, nonce |-> 1, to |-> Some(Deployer), op |-> "create",
       target |-> 2, key |-> 2, val |-> 2, blob_versioned_hashes |-> <<>>],
      [sender |-> 1, nonce |-> 0, to |-> Some(Deployer), op |-> "create",
       target |-> 2, key |-> 2, val |-> 1, blob_versioned_hashes |-> <<>>],
      [sender |-> 1, nonce |-> 1, to |-> Some(2), op |-> "sstore",
       target |-> 2, key |-> 1, val |-> 2, blob_versioned_hashes |-> <<7>>],
      [sender |-> 1, nonce |-> 2, to |-> Some(2), op |-> "sstore",
       target |-> 2, key |-> 2, val |-> 0, blob_versioned_hashes |-> <<8>>]>>

TxIds == 1..Len(TxTable)

\* the transaction lists a payload may carry
TxLists ==
    {<<>>, <<0>>, <<1>>, <<1, 2>>, <<3>>, <<3, 4>>, <<4, 5>>, <<5, 4>>}

RECURSIVE Reverse(_)
Reverse(seq) == IF seq = <<>> THEN <<>> ELSE Append(Reverse(Tail(seq)), Head(seq))

\* ExecutionPayloadV3::into_block: decodes the transactions and rebuilds the
\* header; Err when a transaction does not decode
into_block(payload) ==
    IF \E i \in 1..Len(payload.transactions) : payload.transactions[i] = MalformedTx
    THEN [ok |-> FALSE, header |-> GenesisHeader, transactions |-> <<>>]
    ELSE [ok |-> TRUE,
          header |-> [number |-> payload.number,
                      timestamp |-> payload.timestamp,
                      parent_hash |-> payload.parent_hash,
                      transactions_root |-> payload.transactions],
          transactions |-> payload.transactions]

\* a concatenation that takes the transactions from the last to the first
RECURSIVE flat_blob_versioned_hashes_reversed(_)
flat_blob_versioned_hashes_reversed(txs) ==
    IF txs = <<>> THEN <<>>
    ELSE flat_blob_versioned_hashes_reversed(Tail(txs))
             \o TxTable[Head(txs)].blob_versioned_hashes

\* flat_map(|tx| tx.blob_versioned_hashes()) over the transactions
RECURSIVE flat_blob_versioned_hashes(_)
flat_blob_versioned_hashes(txs) ==
    IF txs = <<>> THEN <<>>
    ELSE TxTable[Head(txs)].blob_versioned_hashes
             \o flat_blob_versioned_hashes(Tail(txs))

\* ------------------------------------------------------------------------
\* PayloadStatus and the result of a call
\* ------------------------------------------------------------------------
invalid_with_err(error) ==
    [ok |-> TRUE, err |-> "", status |-> "INVALID",
     latest_valid_hash |-> None, validation_error |-> Some(error)]

invalid_with_hash(hash) ==
    [ok |-> TRUE, err |-> "", status |-> "INVALID",
     latest_valid_hash |-> Some(hash), validation_error |-> None]

syncing ==
    [ok |-> TRUE, err |-> "", status |-> "SYNCING",
     latest_valid_hash |-> None, validation_error |-> None]

valid_with_hash(hash) ==
    [ok |-> TRUE, err |-> "", status |-> "VALID",
     latest_valid_hash |-> Some(hash), validation_error |-> None]

\* Err(RpcErr::...)
RpcError(e) ==
    [ok |-> FALSE, err |-> e, status |-> "",
     latest_valid_hash |-> None, validation_error |-> None]

NoResult == RpcError("")

\* From<RpcErr> for RpcErrorMetadata: the code of an error response
error_code(e) ==
    CASE e = "MethodNotFound" -> -32601
      [] e = "BadParams" -> -32602
      [] e = "UnsuportedFork" -> -38005
      [] e = "Internal" -> -32603

\* ------------------------------------------------------------------------
\* Store (ethereum_rust_storage::Store)
\* ------------------------------------------------------------------------
EmptyStorage == [k \in H256Keys |-> None]

get_cancun_time(st) == st.cancun_time
get_block_header(st, number) ==
    IF number \in DOMAIN st.headers THEN st.headers[number] ELSE None
get_account_info(st, address) == st.account_infos[address]
get_account_code(st, code_hash) ==
    IF code_hash \in DOMAIN st.account_codes THEN st.account_codes[code_hash] ELSE None
get_storage_at(st, address, key) == st.storage[address][key]
get_block_number(st, hash) ==
    IF \E e \in st.block_numbers : e[1] = hash
    THEN Some((CHOOSE e \in st.block_numbers : e[1] = hash)[2])
    ELSE None

add_account_info(st, address, info) ==
    [st EXCEPT !.account_infos[address] = Some(info)]
add_account_code(st, code_hash, code) ==
    [st EXCEPT !.account_codes[code_hash] = Some(code)]
add_storage_at(st, address, key, value) ==
    [st EXCEPT !.storage[address][key] = Some(value)]
\* removes the account info and the account's storage
remove_account(st, address) ==
    [st EXCEPT !.account_infos[address] = None, !.storage[address] = EmptyStorage]
add_block_number(st, hash, number) ==
    [st EXCEPT !.block_numbers =
        {e \in st.block_numbers : e[1] # hash} \cup {<<hash, number>>}]
\* stores the block and indexes its header by number
add_block(st, block) ==
    [st EXCEPT !.headers[block.header.number] = Some(block.header),
               !.bodies[block.header.number] = Some(block.transactions)]

\* add_initial_state(genesis): address 1 is funded, address 2 holds a balance
\* and one storage slot but no code, the deployer holds its code; no other
\* account exists
GenesisStore(cancun) ==
    [cancun_time |-> cancun,
     account_infos |-> [a \in Addrs |->
         CASE a = 1 -> Some([code_hash |-> EmptyCodeHash, balance |-> 300, nonce |-> 0])
           [] a = 2 -> Some([code_hash |-> EmptyCodeHash, balance |-> 1, nonce |-> 0])
           [] a = Deployer
                -> Some([code_hash |-> DeployerCodeHash, balance |-> 0, nonce |-> 1])
           [] OTHER -> None],
     account_codes |-> [h \in CodeHashes |->
         IF h = DeployerCodeHash THEN Some(DeployerCode) ELSE None],
     storage |-> [a \in Addrs |->
         IF a = 2 THEN [EmptyStorage EXCEPT ![from_uint(1)] = Some(from_uint(1))]
         ELSE EmptyStorage],
     headers |-> [n \in 0..MaxNumber |-> IF n = 0 THEN Some(GenesisHeader) ELSE None],
     bodies |-> [n \in 0..MaxNumber |-> IF n = 0 THEN Some(<<>>) ELSE None],
     block_numbers |-> {<<compute_block_hash(GenesisHeader), 0>>}]

\* ------------------------------------------------------------------------
\* Database view of the Store handed to the backend (StoreWrapper)
\* ------------------------------------------------------------------------
\* Database::basic: the account info with its code, None when absent
db_basic(st, address) ==
    LET info == get_account_info(st, address) IN
    IF IsNone(info) THEN None
    ELSE Some([balance |-> Unwrap(info).balance,
               nonce |-> Unwrap(info).nonce,
               code_hash |-> Unwrap(info).code_hash,
               code |-> get_account_code(st, Unwrap(info).code_hash)])

\* Database::storage: the slot value, zero when absent
db_storage(st, address, index) ==
    LET v == get_storage_at(st, address, to_be_bytes(index)) IN
    IF IsNone(v) THEN 0 ELSE from_big_endian(Unwrap(v))

\* ------------------------------------------------------------------------
\* Backend state (revm::db::State with bundle update): the account cache and
\* the transitions accumulated since the last merge
\* ------------------------------------------------------------------------
DestroyedStatuses == {"Destroyed", "DestroyedChanged", "DestroyedAgain"}
NotModifiedStatuses == {"Loaded", "LoadedNotExisting", "LoadedEmptyEIP161"}
StorageKnownStatuses ==
    {"LoadedNotExisting", "InMemoryChange", "Destroyed", "DestroyedChanged",
     "DestroyedAgain"}

on_created(status) ==
    IF status \in DestroyedStatuses THEN "DestroyedChanged" ELSE "InMemoryChange"

on_changed(status, had_no_nonce_and_code) ==
    CASE status \in {"LoadedNotExisting", "LoadedEmptyEIP161", "InMemoryChange"}
            -> "InMemoryChange"
      [] status = "Loaded"
            -> IF had_no_nonce_and_code THEN "InMemoryChange" ELSE "Changed"
      [] status = "Changed" -> "Changed"
      [] OTHER -> "DestroyedChanged"

on_selfdestructed(status) ==
    CASE status = "LoadedNotExisting" -> "LoadedNotExisting"
      [] status \in DestroyedStatuses -> "DestroyedAgain"
      [] OTHER -> "Destroyed"

NoSlots == [k \in Keys |-> None]
EmptyCache == [a \in Addrs |-> None]
EmptyTransitions == [a \in Addrs |-> None]

\* evm_state(store): the backend state over the Store, nothing cached, no
\* transition, empty bundle
evm_state == [cache |-> EmptyCache, transition_state |-> EmptyTransitions]

is_empty_info(info) ==
    info.balance = 0 /\ info.nonce = 0 /\ info.code_hash = EmptyCodeHash

\* State::load_cache_account: a cache miss reads the account from the Store
load_cache_account(cache, st, address) ==
    IF IsSome(cache[address]) THEN cache
    ELSE LET info == db_basic(st, address) IN
         [cache EXCEPT ![address] = Some(
            [status |-> IF IsNone(info) THEN "LoadedNotExisting"
                        ELSE IF is_empty_info(Unwrap(info)) THEN "LoadedEmptyEIP161"
                        ELSE "Loaded",
             info |-> info,
             storage |-> NoSlots])]

\* State::storage on a cached account: the cached slot, zero when the whole
\* storage is known to be in memory, else a read of the Store
state_storage(cache, st, address, index) ==
    LET acc == Unwrap(cache[address]) IN
    IF IsSome(acc.storage[index]) THEN Unwrap(acc.storage[index])
    ELSE IF acc.status \in StorageKnownStatuses THEN 0
    ELSE db_storage(st, address, index)

\* the present values of a set of changed slots laid over a cached storage
OverlayPresent(storage, changed) ==
    [k \in Keys |-> IF IsSome(changed[k]) THEN Some(Unwrap(changed[k]).present_value)
                    ELSE storage[k]]

\* CacheAccount::newly_created
newly_created(acc, new_info, new_storage) ==
    [account |-> [status |-> on_created(acc.status),
                  info |-> Some(new_info),
                  storage |-> OverlayPresent(NoSlots, new_storage)],
     transition |-> Some([info |-> Some(new_info),
                          status |-> on_created(acc.status),
                          previous_info |-> acc.info,
                          previous_status |-> acc.status,
                          storage |-> new_storage,
                          storage_was_destroyed |-> FALSE])]

\* CacheAccount::change
change(acc, new_info, storage) ==
    LET had_no_nonce_and_code ==
            IF IsSome(acc.info)
            THEN Unwrap(acc.info).nonce = 0 /\ Unwrap(acc.info).code_hash = EmptyCodeHash
            ELSE FALSE
        status == on_changed(acc.status, had_no_nonce_and_code)
    IN [account |-> [status |-> status,
                     info |-> Some(new_info),
                     storage |-> OverlayPresent(acc.storage, storage)],
        transition |-> Some([info |-> Some(new_info),
                             status |-> status,
                             previous_info |-> acc.info,
                             previous_status |-> acc.status,
                             storage |-> storage,
                             storage_was_destroyed |-> FALSE])]

\* CacheAccount::selfdestruct
selfdestruct(acc) ==
    [account |-> [status |-> on_selfdestructed(acc.status),
                  info |-> None,
                  storage |-> NoSlots],
     transition |-> IF acc.status = "LoadedNotExisting" THEN None
                    ELSE Some([info |-> None,
                               status |-> on_selfdestructed(acc.status),
                               previous_info |-> acc.info,
                               previous_status |-> acc.status,
                               storage |-> NoSlots,
                               storage_was_destroyed |-> TRUE])]

\* TransitionAccount::update: a later transition of the same account laid
\* over an earlier one
transition_update(this, other) ==
    IF other.status \in {"Destroyed", "DestroyedAgain"} \/ other.storage_was_destroyed
    THEN [this EXCEPT !.info = other.info, !.status = other.status,
                      !.storage = other.storage, !.storage_was_destroyed = TRUE]
    ELSE [this EXCEPT
            !.info = other.info,
            !.status = other.status,
            !.storage = [k \in Keys |->
                IF IsNone(other.storage[k]) THEN this.storage[k]
                ELSE IF IsNone(this.storage[k]) THEN other.storage[k]
                ELSE IF Unwrap(this.storage[k]).previous_or_original_value
                            = Unwrap(other.storage[k]).present_value
                     THEN None
                     ELSE Some([Unwrap(this.storage[k]) EXCEPT
                            !.present_value = Unwrap(other.storage[k]).present_value])]]

\* TransitionState::add_transitions for one account
add_transition(transition_state, address, transition) ==
    IF IsNone(transition) THEN transition_state
    ELSE IF IsNone(transition_state[address])
    THEN [transition_state EXCEPT ![address] = transition]
    ELSE [transition_state EXCEPT ![address] =
            Some(transition_update(Unwrap(transition_state[address]), Unwrap(transition)))]

\* ------------------------------------------------------------------------
\* The backend run of one transaction (Evm::transact_commit), as far as the
\* adapter observes it: which accounts are read and which changes are
\* committed to the backend state
\* ------------------------------------------------------------------------
has_code(acc) == IsSome(acc.info) /\ Unwrap(acc.info).code_hash # EmptyCodeHash

\* a CREATE collides with an account that has code or a nonce
collides(acc) ==
    IsSome(acc.info)
        /\ (Unwrap(acc.info).code_hash # EmptyCodeHash \/ Unwrap(acc.info).nonce # 0)

NewContractInfo(acc) ==
    [balance |-> IF IsSome(acc.info) THEN Unwrap(acc.info).balance ELSE 0,
     nonce |-> 1,
     code_hash |-> ContractCodeHash,
     code |-> Some(ContractCode)]

\* the one slot a transaction writes, as a changed-slot map (empty when the
\* value written is the value read)
WrittenSlot(key, original, present) ==
    [k \in Keys |-> IF k = key /\ original # present
                    THEN Some([previous_or_original_value |-> original,
                               present_value |-> present])
                    ELSE None]

\* AccountInfo::default(): the info of an account the backend materialises
EmptyInfo ==
    [balance |-> 0, nonce |-> 0, code_hash |-> EmptyCodeHash, code |-> Some(<<>>)]

\* AccountStatus::on_touched_created_pre_eip161: the status of an empty
\* account that was touched, None when the touch changes nothing
on_touched_created_pre_eip161(status, had_no_info) ==
    CASE status = "LoadedEmptyEIP161" -> None
      [] status = "DestroyedChanged"
            -> IF had_no_info THEN None ELSE Some("DestroyedChanged")
      [] status \in {"Destroyed", "DestroyedAgain"} -> Some("DestroyedChanged")
      [] OTHER -> Some("InMemoryChange")

\* CacheAccount::touch_create_pre_eip161: without state clear a touched empty
\* account is kept as an account with the empty info
touch_create_pre_eip161(acc, storage) ==
    LET had_no_info == IF IsSome(acc.info) THEN is_empty_info(Unwrap(acc.info))
                       ELSE FALSE
        status == on_touched_created_pre_eip161(acc.status, had_no_info)
    IN IF IsNone(status) THEN [account |-> acc, transition |-> None]
       ELSE [account |-> [status |-> Unwrap(status),
                          info |-> Some(EmptyInfo),
                          storage |-> OverlayPresent(NoSlots, storage)],
             transition |-> Some([info |-> Some(EmptyInfo),
                                  status |-> Unwrap(status),
                                  previous_info |-> acc.info,
                                  previous_status |-> acc.status,
                                  storage |-> storage,
                                  storage_was_destroyed |-> FALSE])]

\* CacheState::apply_account_state for an account that was touched and neither
\* created nor destroyed: an empty one is touched, another one changed
touched(acc, info, storage) ==
    IF is_empty_info(info) THEN touch_create_pre_eip161(acc, storage)
    ELSE change(acc, info, storage)

\* the info the backend works on for a cached account
info_or_default(acc) == IF IsSome(acc.info) THEN Unwrap(acc.info) ELSE EmptyInfo

\* tx_env(tx): the transaction environment of a block transaction
tx_env(tx) ==
    [caller |-> tx.sender, nonce |-> Some(tx.nonce), transact_to |-> tx.to,
     op |-> tx.op, target |-> tx.target, key |-> tx.key, val |-> tx.val]

\* the validation of the sender: an environment without a nonce (the system
\* call, which pays nothing) passes; otherwise the sender exists and the
\* transaction carries the sender's nonce
valid_sender(acc, env) ==
    IF IsNone(env.nonce) THEN TRUE
    ELSE IsSome(acc.info) /\ Unwrap(acc.info).nonce = Unwrap(env.nonce)

\* the account whose code a run of env executes: the callee of a call, the
\* created address of a CREATE transaction
callee(env, snd) ==
    IF IsSome(env.transact_to) THEN Unwrap(env.transact_to)
    ELSE create_address(env.caller, info_or_default(snd).nonce)

\* the code that runs is the deployer's and the input asks for a deployment
deploys(env, acc) ==
    /\ env.op \in {"create", "create_destroy"}
    /\ IsSome(env.transact_to)
    /\ IsSome(acc.info)
    /\ Unwrap(acc.info).code_hash = DeployerCodeHash

\* the code that runs is the contract's and the input asks for an SSTORE
stores(env, acc) ==
    /\ env.op = "sstore"
    /\ IsSome(acc.info)
    /\ Unwrap(acc.info).code_hash = ContractCodeHash

NoRead == [kind |-> "none", address |-> 0, index |-> 0]

\* the next call of the database view a commit-mode run of env makes on the
\* backend state es: the sender, then the callee, then the account a CREATE2
\* of the deployer lands on, then the slot of an SSTORE, each only when the
\* cache does not hold it
next_read(env, es) ==
    IF IsNone(es.cache[env.caller])
    THEN [kind |-> "basic", address |-> env.caller, index |-> 0]
    ELSE IF ~valid_sender(Unwrap(es.cache[env.caller]), env) THEN NoRead
    ELSE IF IsNone(es.cache[callee(env, Unwrap(es.cache[env.caller]))])
    THEN [kind |-> "basic",
          address |-> callee(env, Unwrap(es.cache[env.caller])), index |-> 0]
    ELSE IF /\ deploys(env, Unwrap(es.cache[Unwrap(env.transact_to)]))
            /\ IsNone(es.cache[env.target])
    THEN [kind |-> "basic", address |-> env.target, index |-> 0]
    ELSE IF /\ IsSome(env.transact_to)
            /\ stores(env, Unwrap(es.cache[Unwrap(env.transact_to)]))
            /\ IsNone(Unwrap(es.cache[Unwrap(env.transact_to)]).storage[env.key])
            /\ Unwrap(es.cache[Unwrap(env.transact_to)]).status
                    \notin StorageKnownStatuses
    THEN [kind |-> "storage", address |-> Unwrap(env.transact_to), index |-> env.key]
    ELSE NoRead

\* the backend state after the database view answered the read rd from st:
\* the account, or the slot of a cached account, is now in the cache
after_read(es, rd, st) ==
    CASE rd.kind = "basic"
            -> [es EXCEPT !.cache = load_cache_account(es.cache, st, rd.address)]
      [] rd.kind = "storage"
            -> [es EXCEPT !.cache[rd.address] =
                    Some([Unwrap(es.cache[rd.address]) EXCEPT !.storage[rd.index] =
                            Some(state_storage(es.cache, st, rd.address, rd.index))])]
      [] OTHER -> es

\* every read of a run of env made from the one Store st
RECURSIVE load_all(_, _, _)
load_all(env, es, st) ==
    IF next_read(env, es) = NoRead THEN es
    ELSE load_all(env, after_read(es, next_read(env, es), st), st)

\* the change a deployment of the deployer makes to the account it lands on:
\* none on a collision
deployed(env, tgt) ==
    CASE collides(tgt) -> [account |-> tgt, transition |-> None]
      [] env.op = "create"
            -> newly_created(tgt, NewContractInfo(tgt), WrittenSlot(env.key, 0, env.val))
      [] OTHER -> selfdestruct(tgt)

\* the run of env on a backend state that holds everything the run reads, and
\* the commit of its changes to the cache and the transitions
commit_run(env, es) ==
    LET snd == Unwrap(es.cache[env.caller]) IN
    IF ~valid_sender(snd, env) THEN [ok |-> FALSE, state |-> es]
    ELSE
    LET to == callee(env, snd)
        snd_ch == touched(snd, [info_or_default(snd) EXCEPT !.nonce = @ + 1], NoSlots)
        c2 == [es.cache EXCEPT ![env.caller] = Some(snd_ch.account)]
        t1 == add_transition(es.transition_state, env.caller, snd_ch.transition)
        cal == Unwrap(c2[to])
    IN
    CASE IsNone(env.transact_to) ->
            LET ch == deployed([env EXCEPT !.op = "create"], cal) IN
            [ok |-> TRUE,
             state |-> [cache |-> [c2 EXCEPT ![to] = Some(ch.account)],
                        transition_state |-> add_transition(t1, to, ch.transition)]]
      [] deploys(env, cal) ->
            LET dep_ch == change(cal, [Unwrap(cal.info) EXCEPT !.nonce = @ + 1], NoSlots)
                c3 == [c2 EXCEPT ![to] = Some(dep_ch.account)]
                tgt_ch == deployed(env, Unwrap(c3[env.target]))
            IN [ok |-> TRUE,
                state |-> [cache |-> [c3 EXCEPT ![env.target] = Some(tgt_ch.account)],
                           transition_state |->
                               add_transition(add_transition(t1, to, dep_ch.transition),
                                              env.target, tgt_ch.transition)]]
      [] stores(env, cal) ->
            LET ch == change(cal, Unwrap(cal.info),
                             WrittenSlot(env.key,
                                         IF IsSome(cal.storage[env.key])
                                         THEN Unwrap(cal.storage[env.key]) ELSE 0,
                                         env.val))
            IN [ok |-> TRUE,
                state |-> [cache |-> [c2 EXCEPT ![to] = Some(ch.account)],
                           transition_state |-> add_transition(t1, to, ch.transition)]]
      [] OTHER ->
            LET ch == touched(cal, info_or_default(cal), NoSlots) IN
            [ok |-> TRUE,
             state |-> [cache |-> [c2 EXCEPT ![to] = Some(ch.account)],
                        transition_state |-> add_transition(t1, to, ch.transition)]]

\* Evm::transact_commit: the run reads what it needs through the database
\* view and commits its changes to the backend state
transact_commit(env, es, st) == commit_run(env, load_all(env, es, st))

\* what Database::basic returned for an account
BasicRead(st, address) ==
    [kind |-> "basic", address |-> address, index |-> 0,
     info |-> db_basic(st, address), value |-> 0]

\* what Database::storage returned for a slot
StorageRead(st, address, index) ==
    [kind |-> "storage", address |-> address, index |-> index,
     info |-> None, value |-> db_storage(st, address, index)]

\* what the database view returned for the read rd
ReadOf(rd, st) ==
    IF rd.kind = "basic" THEN BasicRead(st, rd.address)
    ELSE StorageRead(st, rd.address, rd.index)

\* the Store call behind a call of the database view
StoreCallOf(rd) == IF rd.kind = "basic" THEN "get_account_info" ELSE "get_storage_at"

\* run_evm / execute_tx: the transaction is run in commit mode on the
\* backend state; nothing is written to the Store
run_evm(env, es, st) == transact_commit(env, es, st)
execute_tx(tx, es, st) == run_evm(tx_env(tx), es, st)

\* ------------------------------------------------------------------------
\* Access-list discovery and gas estimation (create_access_list,
\* create_access_list_inner, estimate_gas, access_list_inspector)
\* ------------------------------------------------------------------------
\* gas schedule of the backend (EIP-2028, EIP-2929, EIP-2930, EIP-2200)
TxBaseGas == 21000
AccessListAddressGas == 2400
AccessListStorageKeyGas == 1900
ColdSloadGas == 2100
WarmAccessGas == 100
SstoreSetGas == 20000
SstoreResetGas == 2900
\* stand-in for u64::MAX, the gas limit of a transaction that names none
GasUnlimited == 1000000

\* GenericTransaction: sent by `from` to the contract `to` (None for a
\* CREATE) with an access list of (address, H256 storage keys) items; `op`
\* is what the input asks of the code that runs:
\*   "sload"        SLOAD(key)
\*   "sstore"       BALANCE(caller), SSTORE(key, val)
\*   "sload_revert" SLOAD(key), REVERT
\*   "sload_gas"    SLOAD(key), then SLOAD(branch_key) when the gas left is
\*                  below mark
\*   "init"         (CREATE) init code that does SSTORE(key, val)
GenericTxTable ==
    <<[from |-> 1, to |-> Some(2), gas |-> Some(30000), access_list |-> <<>>,
       op |-> "sload", key |-> 1, val |-> 0, branch_key |-> 0, mark |-> 0],
      [from |-> 1, to |-> Some(2), gas |-> Some(60000),
       access_list |-> <<[address |-> 1, storage_keys |-> <<>>]>>,
       op |-> "sstore", key |-> 2, val |-> 1, branch_key |-> 0, mark |-> 0],
      [from |-> 1, to |-> Some(2), gas |-> Some(30000), access_list |-> <<>>,
       op |-> "sload_revert", key |-> 2, val |-> 0, branch_key |-> 0, mark |-> 0],
      [from |-> 1, to |-> Some(2), gas |-> Some(40000), access_list |-> <<>>,
       op |-> "sload_gas", key |-> 1, val |-> 0, branch_key |-> 2, mark |-> 15000],
      [from |-> 1, to |-> None, gas |-> None, access_list |-> <<>>,
       op |-> "init", key |-> 1, val |-> 1, branch_key |-> 0, mark |-> 0],
      [from |-> 1, to |-> Some(2), gas |-> Some(22000), access_list |-> <<>>,
       op |-> "sload", key |-> 2, val |-> 0, branch_key |-> 0, mark |-> 0],
      [from |-> 1, to |-> Some(2), gas |-> Some(30000),
       access_list |-> <<[address |-> 2, storage_keys |-> <<from_uint(2)>>]>>,
       op |-> "sload", key |-> 1, val |-> 0, branch_key |-> 0, mark |-> 0]>>


\* tx_env_from_generic: the transaction environment of a generic
\* transaction; the storage keys become U256 values read big-endian
tx_env_from_generic(tx, nonce) ==
    [caller |-> tx.from,
     gas_limit |-> IF IsSome(tx.gas) THEN Unwrap(tx.gas) ELSE GasUnlimited,
     transact_to |-> tx.to,
     nonce |-> Some(nonce),
     access_list |-> [i \in 1..Len(tx.access_list) |->
        <<tx.access_list[i].address,
          [j \in 1..Len(tx.access_list[i].storage_keys) |->
                from_big_endian(tx.access_list[i].storage_keys[j])]>>],
     op |-> tx.op, key |-> tx.key, val |-> tx.val,
     branch_key |-> tx.branch_key, mark |-> tx.mark]


\* the code that runs for a transaction environment on the target account:
\* the instructions of the contract picked by the input, none when the
\* called account has no code
Program(env, tgt) ==
    CASE IsNone(env.transact_to) /\ env.op = "init"
            -> <<[op |-> "SSTORE", address |-> 0, key |-> env.key, val |-> env.val,
                  mark |-> 0]>>
      [] IsSome(env.transact_to) /\ has_code(tgt) /\ env.op = "sload"
            -> <<[op |-> "SLOAD", address |-> 0, key |-> env.key, val |-> 0,
                  mark |-> 0]>>
      [] IsSome(env.transact_to) /\ has_code(tgt) /\ env.op = "sstore"
            -> <<[op |-> "BALANCE", address |-> env.caller, key |-> 0, val |-> 0,
                  mark |-> 0],
                 [op |-> "SSTORE", address |-> 0, key |-> env.key, val |-> env.val,
                  mark |-> 0]>>
      [] IsSome(env.transact_to) /\ has_code(tgt) /\ env.op = "sload_revert"
            -> <<[op |-> "SLOAD", address |-> 0, key |-> env.key, val |-> 0,
                  mark |-> 0],
                 [op |-> "REVERT", address |-> 0, key |-> 0, val |-> 0, mark |-> 0]>>
      [] IsSome(env.transact_to) /\ has_code(tgt) /\ env.op = "sload_gas"
            -> <<[op |-> "SLOAD", address |-> 0, key |-> env.key, val |-> 0,
                  mark |-> 0],
                 [op |-> "SLOAD_IF_GAS_BELOW", address |-> 0, key |-> env.branch_key,
                  val |-> 0, mark |-> env.mark]>>
      [] OTHER -> <<>>

RECURSIVE SumLens(_)
SumLens(list) ==
    IF list = <<>> THEN 0 ELSE Len(Head(list)[2]) + SumLens(Tail(list))

\* the gas a transaction pays before its code runs: every item and every key
\* of the access list is paid for
intrinsic_gas(access_list) ==
    TxBaseGas + AccessListAddressGas * Len(access_list)
        + AccessListStorageKeyGas * SumLens(access_list)

\* the (address, key) pairs an access list makes warm
WarmSlots(access_list) ==
    UNION {{<<access_list[i][1], access_list[i][2][j]>> :
                j \in 1..Len(access_list[i][2])} : i \in 1..Len(access_list)}

\* the gas of a storage access to slot key of contract
StorageAccessGas(instr, contract, warm, current) ==
    (IF <<contract, instr.key>> \in warm THEN 0 ELSE ColdSloadGas)
        + (IF instr.op = "SSTORE"
           THEN (IF current = instr.val THEN WarmAccessGas
                 ELSE IF current = 0 THEN SstoreSetGas ELSE SstoreResetGas)
           ELSE (IF <<contract, instr.key>> \in warm THEN WarmAccessGas ELSE 0))

\* the interpreter on the instructions of contract: the inspector sees every
\* instruction before it is paid for; the result kind, the gas left and the
\* instructions seen
RECURSIVE Interpret(_, _, _, _, _, _)
Interpret(instrs, contract, gas_left, warm, slot_value, seen) ==
    IF instrs = <<>> THEN [kind |-> "Success", gas_left |-> gas_left, seen |-> seen]
    ELSE
    LET i == Head(instrs) IN
    CASE i.op = "REVERT"
            -> [kind |-> "Revert", gas_left |-> gas_left, seen |-> seen]
      [] i.op = "BALANCE"
            -> IF gas_left < WarmAccessGas
               THEN [kind |-> "Halt", gas_left |-> 0, seen |-> Append(seen, i)]
               ELSE Interpret(Tail(instrs), contract, gas_left - WarmAccessGas, warm,
                              slot_value, Append(seen, i))
      [] i.op = "SLOAD_IF_GAS_BELOW"
            -> IF gas_left < i.mark
               THEN Interpret(<<[i EXCEPT !.op = "SLOAD"]>> \o Tail(instrs), contract,
                              gas_left, warm, slot_value, seen)
               ELSE Interpret(Tail(instrs), contract, gas_left, warm, slot_value, seen)
      [] OTHER
            -> LET cost == StorageAccessGas(i, contract, warm, slot_value[i.key]) IN
               IF gas_left < cost
               THEN [kind |-> "Halt", gas_left |-> 0, seen |-> Append(seen, i)]
               ELSE Interpret(Tail(instrs), contract, gas_left - cost,
                              warm \cup {<<contract, i.key>>},
                              IF i.op = "SSTORE"
                              THEN [slot_value EXCEPT ![i.key] = i.val]
                              ELSE slot_value,
                              Append(seen, i))

NoExecutionResult == [kind |-> "", gas_used |-> 0]

\* ExecutionResult::is_success
is_success(result) == result.kind = "Success"

\* State::storage on a cached account: a slot that is not in the cached
\* storage is put there, with zero when the whole storage is known to be in
\* memory and with what the Store holds otherwise; nothing is kept for an
\* account that does not exist
cache_slot(cache, st, address, index) ==
    LET acc == Unwrap(cache[address]) IN
    IF IsNone(acc.info) \/ IsSome(acc.storage[index]) THEN cache
    ELSE [cache EXCEPT ![address] =
            Some([acc EXCEPT !.storage[index] =
                    Some(state_storage(cache, st, address, index))])]

\* the call of the database view an instruction of the code of contract
\* makes on the Store, none when the cache answers it
instr_read(cache, contract, instr) ==
    CASE instr.op \in {"SLOAD", "SSTORE"}
            -> IF /\ IsSome(Unwrap(cache[contract]).info)
                  /\ IsNone(Unwrap(cache[contract]).storage[instr.key])
                  /\ Unwrap(cache[contract]).status \notin StorageKnownStatuses
               THEN [kind |-> "storage", address |-> contract, index |-> instr.key]
               ELSE NoRead
      [] instr.op = "BALANCE"
            -> IF IsNone(cache[instr.address])
               THEN [kind |-> "basic", address |-> instr.address, index |-> 0]
               ELSE NoRead
      [] OTHER -> NoRead

\* the cache after an instruction of the code of contract has loaded what it
\* works on
instr_load(cache, st, contract, instr) ==
    CASE instr.op \in {"SLOAD", "SSTORE"} -> cache_slot(cache, st, contract, instr.key)
      [] instr.op = "BALANCE" -> load_cache_account(cache, st, instr.address)
      [] OTHER -> cache

\* the cache after the instructions seen have loaded what they work on
RECURSIVE code_loads(_, _, _, _)
code_loads(cache, st, contract, seen) ==
    IF seen = <<>> THEN cache
    ELSE code_loads(instr_load(cache, st, contract, Head(seen)), st, contract,
                    Tail(seen))

\* the calls of the database view the instructions seen make on the Store
RECURSIVE code_reads(_, _, _, _)
code_reads(cache, st, contract, seen) ==
    IF seen = <<>> THEN <<>>
    ELSE (IF instr_read(cache, contract, Head(seen)) = NoRead THEN <<>>
          ELSE <<instr_read(cache, contract, Head(seen))>>)
         \o code_reads(instr_load(cache, st, contract, Head(seen)), st, contract,
                       Tail(seen))

\* a run that commits the sender's nonce to the backend state
transact_committing(env, es, st) ==
    IF intrinsic_gas(env.access_list) > env.gas_limit
    THEN [ok |-> FALSE, result |-> NoExecutionResult, seen |-> <<>>,
          contract |-> 0, state |-> es]
    ELSE
    LET c1 == load_cache_account(es.cache, st, env.caller)
        snd == Unwrap(c1[env.caller])
    IN
    IF ~valid_sender(snd, env)
    THEN [ok |-> FALSE, result |-> NoExecutionResult, seen |-> <<>>,
          contract |-> 0, state |-> [es EXCEPT !.cache = c1]]
    ELSE
    LET contract == callee(env, snd)
        c3 == load_cache_account(c1, st, contract)
        tgt == Unwrap(c3[contract])
        snd_ch == change(snd, [Unwrap(snd.info) EXCEPT !.nonce = @ + 1], NoSlots)
    IN
    IF IsNone(env.transact_to) /\ collides(tgt)
    THEN [ok |-> TRUE, result |-> [kind |-> "Halt", gas_used |-> env.gas_limit],
          seen |-> <<>>, contract |-> contract,
          state |-> [cache |-> [c3 EXCEPT ![env.caller] = Some(snd_ch.account)],
                     transition_state |->
                        add_transition(es.transition_state, env.caller,
                                       snd_ch.transition)]]
    ELSE
    LET slot_value == [k \in Keys |->
                        IF IsNone(env.transact_to) THEN 0
                        ELSE state_storage(c3, st, contract, k)]
        run == Interpret(Program(env, tgt), contract,
                         env.gas_limit - intrinsic_gas(env.access_list),
                         WarmSlots(env.access_list), slot_value, <<>>)
        c4 == IF IsNone(env.transact_to) THEN c3
              ELSE code_loads(c3, st, contract, run.seen)
    IN [ok |-> TRUE,
        result |-> [kind |-> run.kind, gas_used |-> env.gas_limit - run.gas_left],
        seen |-> run.seen,
        contract |-> contract,
        state |-> [cache |-> [c4 EXCEPT ![env.caller] = Some(snd_ch.account)],
                   transition_state |->
                        add_transition(es.transition_state, env.caller,
                                       snd_ch.transition)]]

\* Evm::transact: the transaction is run on the backend state and nothing is
\* committed; the accounts and the slots the run reads are loaded into the
\* cache.  Err when the transaction is invalid: a gas limit below the gas
\* paid before the code runs, found before anything is read, or a wrong nonce
\* of the sender.  The code of a CREATE runs on a new account, whose slots
\* are not read
transact(env, es, st) ==
    IF intrinsic_gas(env.access_list) > env.gas_limit
    THEN [ok |-> FALSE, result |-> NoExecutionResult, seen |-> <<>>,
          contract |-> 0, state |-> es]
    ELSE
    LET c1 == load_cache_account(es.cache, st, env.caller)
        snd == Unwrap(c1[env.caller])
    IN
    IF ~valid_sender(snd, env)
    THEN [ok |-> FALSE, result |-> NoExecutionResult, seen |-> <<>>,
          contract |-> 0, state |-> [es EXCEPT !.cache = c1]]
    ELSE
    LET contract == callee(env, snd)
        c3 == load_cache_account(c1, st, contract)
        tgt == Unwrap(c3[contract])
    IN
    IF IsNone(env.transact_to) /\ collides(tgt)
    THEN [ok |-> TRUE, result |-> [kind |-> "Halt", gas_used |-> env.gas_limit],
          seen |-> <<>>, contract |-> contract,
          state |-> [es EXCEPT !.cache = c3]]
    ELSE
    LET slot_value == [k \in Keys |->
                        IF IsNone(env.transact_to) THEN 0
                        ELSE state_storage(c3, st, contract, k)]
        run == Interpret(Program(env, tgt), contract,
                         env.gas_limit - intrinsic_gas(env.access_list),
                         WarmSlots(env.access_list), slot_value, <<>>)
    IN [ok |-> TRUE,
        result |-> [kind |-> run.kind, gas_used |-> env.gas_limit - run.gas_left],
        seen |-> run.seen,
        contract |-> contract,
        state |-> [es EXCEPT !.cache =
                        IF IsNone(env.transact_to) THEN c3
                        ELSE code_loads(c3, st, contract, run.seen)]]

\* the calls of the database view a run of env makes on the Store, in the
\* order in which it makes them: the sender, the account whose code runs,
\* then what the instructions of the code work on, each only when the cache
\* does not hold it
run_reads(env, es, st) ==
    IF intrinsic_gas(env.access_list) > env.gas_limit THEN <<>>
    ELSE
    LET c1 == load_cache_account(es.cache, st, env.caller)
        snd == Unwrap(c1[env.caller])
        sender_read == IF IsNone(es.cache[env.caller])
                       THEN <<[kind |-> "basic", address |-> env.caller, index |-> 0]>>
                       ELSE <<>>
    IN
    IF ~valid_sender(snd, env) THEN sender_read
    ELSE
    LET contract == callee(env, snd)
        c3 == load_cache_account(c1, st, contract)
    IN sender_read
        \o (IF IsNone(c1[contract])
            THEN <<[kind |-> "basic", address |-> contract, index |-> 0]>>
            ELSE <<>>)
        \o (IF IsNone(env.transact_to) THEN <<>>
            ELSE code_reads(c3, st, contract, transact(env, es, st).seen))

\* the backend state after the first n of the reads were answered from st
RECURSIVE after_reads(_, _, _, _)
after_reads(es, reads, st, n) ==
    IF n = 0 \/ reads = <<>> THEN es
    ELSE after_reads(after_read(es, Head(reads), st), Tail(reads), st, n - 1)

\* precompile addresses of the fork (none of them is an account of the model)
PrecompileAddresses == {}

\* the keys of a set as a BTreeSet iterates them: ascending
RECURSIVE SortedKeys(_)
SortedKeys(S) ==
    IF S = {} THEN <<>>
    ELSE LET least == CHOOSE x \in S :
                        \A y \in S : from_big_endian(x) <= from_big_endian(y)
         IN <<least>> \o SortedKeys(S \ {least})

\* AccessListInspector::new: the items of the transaction's list are collected
\* into a map from address to key set (a later item of an address replaces an
\* earlier one); caller, callee and precompiles are excluded
RECURSIVE CollectItems(_, _)
CollectItems(items, map) ==
    IF items = <<>> THEN map
    ELSE CollectItems(Tail(items),
            [map EXCEPT ![Head(items)[1]] =
                Some({to_be_bytes(Head(items)[2][j]) : j \in DOMAIN Head(items)[2]})])

\* the inspector reads the Store: the transaction is a CREATE and the caller
\* is not in the cache
inspector_reads_store(env, es) ==
    IsNone(env.transact_to) /\ IsNone(es.cache[env.caller])

\* access_list_inspector: the inspector of a run of env; for a CREATE the
\* callee is derived from the caller's nonce in the backend state, which loads
\* the caller into the cache.  Err when that read of the Store fails
\* (read_fails)
access_list_inspector(env, es, st, read_fails) ==
    IF inspector_reads_store(env, es) /\ read_fails
    THEN [ok |-> FALSE, excluded |-> {}, access_list |-> [a \in Addrs |-> None],
          state |-> es]
    ELSE
    LET c1 == IF IsNone(env.transact_to)
              THEN load_cache_account(es.cache, st, env.caller)
              ELSE es.cache
        to == IF IsSome(env.transact_to) THEN Unwrap(env.transact_to)
              ELSE create_address(env.caller,
                        IF IsSome(Unwrap(c1[env.caller]).info)
                        THEN Unwrap(Unwrap(c1[env.caller]).info).nonce
                        ELSE 0)
    IN [ok |-> TRUE,
        excluded |-> {env.caller, to} \cup PrecompileAddresses,
        access_list |-> CollectItems(env.access_list, [a \in Addrs |-> None]),
        state |-> [es EXCEPT !.cache = c1]]

\* AccessListInspector::step: a storage instruction records the slot under
\* the running contract; an instruction that names an account records the
\* account unless it is excluded
inspector_step(inspector, contract, instr) ==
    IF instr.op \in {"SLOAD", "SSTORE"}
    THEN [inspector EXCEPT !.access_list[contract] =
            Some((IF IsSome(@) THEN Unwrap(@) ELSE {}) \cup {to_be_bytes(instr.key)})]
    ELSE IF instr.op = "BALANCE" /\ instr.address \notin inspector.excluded
    THEN [inspector EXCEPT !.access_list[instr.address] =
            IF IsSome(@) THEN @ ELSE Some({})]
    ELSE inspector

RECURSIVE InspectAll(_, _, _)
InspectAll(inspector, contract, seen) ==
    IF seen = <<>> THEN inspector
    ELSE InspectAll(inspector_step(inspector, contract, Head(seen)), contract,
                    Tail(seen))

\* AccessListInspector::into_access_list: the items of the map, the addresses
\* in the order addrs in which the hash map is iterated
RECURSIVE into_access_list(_, _)
into_access_list(map, addrs) ==
    IF addrs = <<>> THEN <<>>
    ELSE (IF IsSome(map[Head(addrs)])
          THEN <<[address |-> Head(addrs),
                  storage_keys |-> SortedKeys(Unwrap(map[Head(addrs)]))]>>
          ELSE <<>>)
         \o into_access_list(map, Tail(addrs))

\* the run of env reads the Store: it makes a call of the database view
run_reads_store(env, es, st) == run_reads(env, es, st) # <<>>

\* Evm::transact in which the call number fail_at of the database view
\* fails (none when fail_at is 0 or the run makes fewer calls): the run ends
\* with Err and the backend state holds what was read before
transact_or_fail(env, es, st, fail_at) ==
    IF fail_at \in 1..Len(run_reads(env, es, st))
    THEN [ok |-> FALSE, result |-> NoExecutionResult, seen |-> <<>>,
          contract |-> 0,
          state |-> after_reads(es, run_reads(env, es, st), st, fail_at - 1)]
    ELSE transact(env, es, st)

\* the addresses of the map an inspector holds
ListedAddrs(map) == {a \in Addrs : IsSome(map[a])}

\* "Ok((tx_result.result.into(), access_list))": the result of the run and
\* the list of the inspector that has seen the run
inspected_result(inspector, tx_result, addrs) ==
    [ok |-> tx_result.ok,
     ran |-> TRUE,
     result |-> tx_result.result,
     access_list |->
        IF tx_result.ok
        THEN into_access_list(
                InspectAll(inspector, tx_result.contract, tx_result.seen).access_list,
                addrs)
        ELSE <<>>,
     state |-> tx_result.state]

\* the calls of the database view create_access_list_inner makes on the
\* Store: the one of the inspector, then the ones of the run
inner_reads(env, es, st) ==
    (IF inspector_reads_store(env, es)
     THEN <<[kind |-> "basic", address |-> env.caller, index |-> 0]>>
     ELSE <<>>)
    \o run_reads(env, access_list_inspector(env, es, st, FALSE).state, st)

\* create_access_list_inner: the run with the access-list inspector; no run
\* is made when the inspector cannot be built.  fail_at numbers the call of
\* the database view that fails, 0 when none does
create_access_list_inner(env, es, st, addrs, fail_at) ==
    IF ~access_list_inspector(env, es, st, fail_at = 1).ok
    THEN [ok |-> FALSE, ran |-> FALSE, result |-> NoExecutionResult,
          access_list |-> <<>>, state |-> es]
    ELSE inspected_result(
            access_list_inspector(env, es, st, FALSE),
            transact_or_fail(env, access_list_inspector(env, es, st, FALSE).state, st,
                             IF fail_at > 0 /\ inspector_reads_store(env, es)
                             THEN fail_at - 1 ELSE fail_at),
            addrs)

\* the addresses the inspector of a run of env holds after the run
InspectedAddrs(env, es, st) ==
    ListedAddrs(
        InspectAll(access_list_inspector(env, es, st, FALSE),
                   transact(env, access_list_inspector(env, es, st, FALSE).state,
                            st).contract,
                   transact(env, access_list_inspector(env, es, st, FALSE).state,
                            st).seen).access_list)

\* "Ok(tx_result.result.into())"
estimated_result(tx_result) ==
    [ok |-> tx_result.ok, result |-> tx_result.result, state |-> tx_result.state]

\* estimate_gas: the run without inspector; Err when the run is refused or
\* when one of its reads of the Store fails
estimate_gas(env, es, st, fail_at) ==
    estimated_result(transact_or_fail(env, es, st, fail_at))

\* the items of a discovered list as items of a transaction environment: the
\* keys become U256 values read big-endian
EnvItems(access_list) ==
    [i \in 1..Len(access_list) |->
        <<access_list[i].address,
          [j \in 1..Len(access_list[i].storage_keys) |->
                from_big_endian(access_list[i].storage_keys[j])]>>]

\* a run of the backend made by create_access_list
Run(mode, env, result) ==
    [mode |-> mode, access_list |-> env.access_list, result |-> result]

\* a test that takes every result for a success
is_success_always(result) == TRUE

\* "Run the tx with the resulting access list and estimate its gas used":
\* the test of the first result that decides on the second run
first_run_succeeded(result) == is_success(result)

\* what create_access_list returns once the second run, the one of env2, is
\* made
after_second_run(env, first, env2, second) ==
    IF ~second.ok
    THEN [ok |-> FALSE, result |-> NoExecutionResult, access_list |-> <<>>,
          state |-> second.state,
          runs |-> <<Run("inspect", env, first.result),
                     Run("estimate", env2, second.result)>>]
    ELSE [ok |-> TRUE, result |-> second.result,
          access_list |-> first.access_list,
          state |-> second.state,
          runs |-> <<Run("inspect", env, first.result),
                     Run("estimate", env2, second.result)>>]

\* what create_access_list does once the first run is made: when it
\* succeeded, the second run has the discovered items appended to the list of
\* the transaction and starts on the backend state the first run has left;
\* fail_at numbers the call of the database view of the second run that fails
after_first_run(env, first, st, fail_at) ==
    IF ~first.ok
    THEN [ok |-> FALSE, result |-> NoExecutionResult, access_list |-> <<>>,
          state |-> first.state,
          runs |-> IF first.ran THEN <<Run("inspect", env, first.result)>> ELSE <<>>]
    ELSE IF first_run_succeeded(first.result)
    THEN after_second_run(
            env, first,
            [env EXCEPT !.access_list = @ \o EnvItems(first.access_list)],
            estimate_gas([env EXCEPT !.access_list = @ \o EnvItems(first.access_list)],
                         first.state, st, fail_at))
    ELSE [ok |-> TRUE, result |-> first.result, access_list |-> first.access_list,
          state |-> first.state,
          runs |-> <<Run("inspect", env, first.result)>>]

\* create_access_list: the inspector run and, when it succeeded, the
\* estimating run with the discovered list appended to the transaction's list;
\* runs lists the runs of the backend that were made.  fail_at numbers the
\* call of the database view that fails, counted over both runs, 0 when none
\* does
create_access_list(tx, nonce, es, st, addrs, fail_at) ==
    LET env == tx_env_from_generic(tx, nonce)
        made == Len(inner_reads(env, es, st))
    IN after_first_run(env,
                       create_access_list_inner(env, es, st, addrs,
                                                IF fail_at > made THEN 0 ELSE fail_at),
                       st,
                       IF fail_at > made THEN fail_at - made ELSE 0)

\* the calls of the database view create_access_list makes on the Store when
\* none of them fails
create_access_list_reads(tx, nonce, es, st, addrs) ==
    LET env == tx_env_from_generic(tx, nonce)
        first == create_access_list_inner(env, es, st, addrs, 0)
    IN inner_reads(env, es, st)
        \o (IF first.ok /\ first_run_succeeded(first.result)
            THEN run_reads([env EXCEPT !.access_list = @ \o EnvItems(first.access_list)],
                           first.state, st)
            ELSE <<>>)

\* beacon_root_contract_call: the system call that hands the beacon root to
\* the beacon-roots contract, run in commit mode; the environment has no
\* nonce and a zero gas price
beacon_root_env(beacon_root) ==
    [caller |-> SystemAddress, nonce |-> None,
     transact_to |-> Some(BeaconRootsAddress), data |-> beacon_root,
     op |-> "beacon_root", target |-> BeaconRootsAddress, key |-> 0, val |-> 0]

beacon_root_contract_call(es, beacon_root, st) ==
    run_evm(beacon_root_env(beacon_root), es, st)

\* ------------------------------------------------------------------------
\* apply_state_transitions
\* ------------------------------------------------------------------------
\* merge_transitions(PlainState) then take_bundle on a backend state whose
\* bundle is empty: every transition becomes a bundle account
take_bundle(es) ==
    [a \in Addrs |->
        IF IsNone(es.transition_state[a]) THEN None
        ELSE LET tr == Unwrap(es.transition_state[a]) IN
             Some([info |-> tr.info,
                   original_info |-> tr.previous_info,
                   storage |-> tr.storage,
                   status |-> tr.status])]

EmptyBundle == [a \in Addrs |-> None]

is_not_modified(account) == account.status \in NotModifiedStatuses
was_destroyed(account) == account.status \in DestroyedStatuses
\* AccountInfo equality compares balance, nonce and code hash
info_key(info) ==
    IF IsSome(info)
    THEN Some(<<Unwrap(info).balance, Unwrap(info).nonce, Unwrap(info).code_hash>>)
    ELSE None
is_info_changed(account) == info_key(account.info) # info_key(account.original_info)
code_hash_of(info) == IF IsSome(info) THEN Some(Unwrap(info).code_hash) ELSE None
is_contract_changed(account) ==
    code_hash_of(account.info) # code_hash_of(account.original_info)
is_changed(slot) == slot.previous_or_original_value # slot.present_value

\* one write to the Store
Write(op, address, info, code_hash, code, key, value) ==
    [op |-> op, address |-> address, info |-> info, code_hash |-> code_hash,
     code |-> code, key |-> key, value |-> value]

NoInfo == [code_hash |-> EmptyCodeHash, balance |-> 0, nonce |-> 0]

\* the AccountInfo written for a bundle account info
StoredAccountInfo(new_acc_info) ==
    [code_hash |-> new_acc_info.code_hash,
     balance |-> from_little_endian(as_le_slice(new_acc_info.balance)),
     nonce |-> new_acc_info.nonce]

\* a storage write that reads the little-endian bytes of the value as
\* big-endian
StorageWrite_big_endian(address, key, slot) ==
    Write("add_storage_at", address, NoInfo, EmptyCodeHash, <<>>,
          from_uint(from_little_endian(as_le_slice(key))),
          from_uint(from_big_endian(as_le_slice(slot.present_value))))

\* the storage write of slot key of an account
StorageWrite(address, key, slot) ==
    Write("add_storage_at", address, NoInfo, EmptyCodeHash, <<>>,
          from_uint(from_little_endian(as_le_slice(key))),
          from_uint(from_little_endian(as_le_slice(slot.present_value))))

RECURSIVE StorageWrites(_, _, _)
StorageWrites(address, account, keys) ==
    IF keys = <<>> THEN <<>>
    ELSE (IF IsSome(account.storage[Head(keys)])
             /\ is_changed(Unwrap(account.storage[Head(keys)]))
          THEN <<StorageWrite(address, Head(keys), Unwrap(account.storage[Head(keys)]))>>
          ELSE <<>>)
         \o StorageWrites(address, account, Tail(keys))

\* a loop body that removes nothing
DestroyWrites_skipped(address, account) == <<>>

\* "Remove account from DB if destroyed"
DestroyWrites(address, account) ==
    IF was_destroyed(account)
    THEN <<Write("remove_account", address, NoInfo, EmptyCodeHash, <<>>, <<>>, <<>>)>>
    ELSE <<>>

\* account changes that write the code before the info
InfoWrites_code_before_info(address, account) ==
    IF is_info_changed(account) /\ IsSome(account.info)
    THEN (IF is_contract_changed(account) /\ IsSome(Unwrap(account.info).code)
          THEN <<Write("add_account_code", address, NoInfo,
                       Unwrap(account.info).code_hash,
                       Unwrap(Unwrap(account.info).code), <<>>, <<>>)>>
          ELSE <<>>)
         \o <<Write("add_account_info", address,
                    StoredAccountInfo(Unwrap(account.info)),
                    EmptyCodeHash, <<>>, <<>>, <<>>)>>
    ELSE <<>>

\* "Apply account changes to DB": the info of an account whose info changed
\* and is present, and its code when the contract changed and code is present
InfoWrites(address, account) ==
    IF is_info_changed(account) /\ IsSome(account.info)
    THEN <<Write("add_account_info", address,
                 StoredAccountInfo(Unwrap(account.info)),
                 EmptyCodeHash, <<>>, <<>>, <<>>)>>
         \o (IF is_contract_changed(account) /\ IsSome(Unwrap(account.info).code)
             THEN <<Write("add_account_code", address, NoInfo,
                          Unwrap(account.info).code_hash,
                          Unwrap(Unwrap(account.info).code), <<>>, <<>>)>>
             ELSE <<>>)
    ELSE <<>>

\* a loop body that writes the info only of an account that was not destroyed
AccountWrites_info_unless_destroyed(address, account, keys) ==
    IF is_not_modified(account) THEN <<>>
    ELSE (IF was_destroyed(account) THEN DestroyWrites(address, account)
          ELSE InfoWrites(address, account))
         \o StorageWrites(address, account, keys)

\* the body of the loop over bundle.state() for one account: the writes it
\* makes, in order; keys is the order in which the storage map of the account
\* is iterated
AccountWrites(address, account, keys) ==
    IF is_not_modified(account) THEN <<>>
    ELSE DestroyWrites(address, account)
         \o InfoWrites(address, account)
         \o StorageWrites(address, account, keys)

\* the accounts of a bundle
BundleAddrs(bundle) == {a \in Addrs : IsSome(bundle[a])}

\* the writes of apply_state_transitions for a bundle; addrs is the order in
\* which the accounts of the bundle are iterated, keys[a] the order in which
\* the storage map of account a is iterated (each account has its own map)
RECURSIVE BundleWrites(_, _, _)
BundleWrites(bundle, addrs, keys) ==
    IF addrs = <<>> THEN <<>>
    ELSE (IF IsSome(bundle[Head(addrs)])
          THEN AccountWrites(Head(addrs), Unwrap(bundle[Head(addrs)]),
                             keys[Head(addrs)])
          ELSE <<>>)
         \o BundleWrites(bundle, Tail(addrs), keys)

\* the effect of one write on the Store
DoWrite(st, w) ==
    CASE w.op = "remove_account" -> remove_account(st, w.address)
      [] w.op = "add_account_info" -> add_account_info(st, w.address, w.info)
      [] w.op = "add_account_code" -> add_account_code(st, w.code_hash, w.code)
      [] w.op = "add_storage_at" -> add_storage_at(st, w.address, w.key, w.value)

\* the orders in which a hash map over S may be iterated
RECURSIVE Orders(_)
Orders(S) ==
    IF S = {} THEN {<<>>}
    ELSE UNION {{<<x>> \o o : o \in Orders(S \ {x})} : x \in S}

\* the ascending order of the accounts of a bundle and of the keys
AscendingAddrs(bundle) ==
    CHOOSE o \in Orders(BundleAddrs(bundle)) :
        \A i, j \in DOMAIN o : i < j => o[i] < o[j]
AscendingKeys == [a \in Addrs |-> <<1, 2>>]

\* the accounts of a bundle for which the loop makes a write; the place of
\* the other accounts in the iteration does not show in the writes
WritingAddrs(bundle) ==
    {a \in BundleAddrs(bundle) :
        AccountWrites(a, Unwrap(bundle[a]), AscendingKeys[a]) # <<>>}

\* the orders in which the storage maps of the accounts of a bundle may be
\* iterated, one order for each account; for an account whose writes are the
\* same in every order only the ascending one is taken
KeyOrders(bundle) ==
    {keys \in [BundleAddrs(bundle) -> Orders(Keys)] :
        \A a \in BundleAddrs(bundle) :
            (\A o \in Orders(Keys) :
                StorageWrites(a, Unwrap(bundle[a]), o)
                    = StorageWrites(a, Unwrap(bundle[a]), AscendingKeys[a]))
                => keys[a] = AscendingKeys[a]}

\* apply_state_transitions run to its end with no failing write: the
\* transitions are merged and the bundle is taken out of the backend state,
\* which keeps its cache; the writes of the bundle go to the Store
apply_state_transitions(es, st, addrs, keys) ==
    LET writes == BundleWrites(take_bundle(es), addrs, keys)
        RECURSIVE all(_, _)
        all(x, ws) == IF ws = <<>> THEN x ELSE all(DoWrite(x, Head(ws)), Tail(ws))
    IN [state |-> [es EXCEPT !.transition_state = EmptyTransitions],
        writes |-> writes,
        store |-> all(st, writes)]

\* ------------------------------------------------------------------------
\* State
\* ------------------------------------------------------------------------
\* request handlers run on tasks; a task that is "off" is never started
Tasks == {1, 2}

VARIABLES
    store,      \* the shared Store
    call,       \* per task: the position and the locals of its new_payload_v3 call
    faults,     \* number of Store calls that have failed so far
    calls       \* number of requests received so far

vars == <<store, call, faults, calls>>

\* highest number of requests in a run
MaxCalls == 2

\* highest number of failing Store calls in a run
MaxFaults == 1

NoPayload ==
    [number |-> 0, timestamp |-> 0, parent_hash |-> <<>>, transactions |-> <<>>,
     block_hash |-> <<>>]

NoRequest == [payload |-> NoPayload, expected_blob_versioned_hashes |-> <<>>]

NoBlock == [header |-> GenesisHeader, transactions |-> <<>>]

\* the last use of the adapter on a backend state outside a block: op names
\* the function called, prior is the backend state it was called on, runs
\* lists the runs of the backend it made; again holds what a second
\* create_access_list returned for the transaction with the merged list
NoSession ==
    [op |-> "", tx |-> 0, nonce |-> 0, ok |-> FALSE,
     result |-> NoExecutionResult, access_list |-> <<>>, runs |-> <<>>,
     prior |-> evm_state,
     again |-> [ok |-> FALSE, access_list |-> <<>>, merged |-> <<>>]]

\* the locals of a call that has not started.  steps lists the checks and
\* Store reads the call has made, written the Store writes it has made,
\* log the writes of apply_state_transitions with their arguments,
\* failed names the Store call that failed, reads holds what the backend has
\* read through the database view, before is the Store at the start
Fresh(pc) ==
    [pc |-> pc,
     request |-> NoRequest,
     block |-> NoBlock,
     parent_header |-> None,
     next_tx |-> 1,
     state |-> evm_state,
     bundle |-> EmptyBundle,
     writes |-> <<>>,
     written |-> <<>>,
     log |-> <<>>,
     steps |-> <<>>,
     failed |-> "",
     reads |-> {},
     result |-> NoResult,
     session |-> NoSession,
     before |-> None]

\* the hash of the header the Store holds at the parent's number, if any
ParentHashes(st, n) ==
    {compute_block_hash(Unwrap(st.headers[m])) :
        m \in {k \in {saturating_sub(n, 1)} : IsSome(st.headers[k])}}

\* the lists of expected blob versioned hashes a request may carry with the
\* transactions txs: the hashes of txs, and the same reversed, without the
\* last one, and with one more
ExpectedLists(txs) ==
    LET decodable(b) == b # MalformedTx
        hashes == flat_blob_versioned_hashes(SelectSeq(txs, decodable))
    IN
    {hashes, Reverse(hashes), Append(hashes, 7)}
        \cup (IF hashes = <<>> THEN {} ELSE {SubSeq(hashes, 1, Len(hashes) - 1)})

\* the requests a consensus client may send when the Store is st: the parent
\* hash is the hash stored at the parent's number or an unknown one, the block
\* hash is the header's hash or an unknown one
Requests(st) ==
    UNION {
        {[payload |-> [number |-> n, timestamp |-> ts, parent_hash |-> ph,
                       transactions |-> txs,
                       block_hash |-> IF good THEN
                            compute_block_hash([number |-> n, timestamp |-> ts,
                                                parent_hash |-> ph,
                                                transactions_root |-> txs])
                            ELSE UnknownHash],
          expected_blob_versioned_hashes |-> exp] :
            ts \in 0..MaxTime, good \in BOOLEAN, exp \in ExpectedLists(txs),
            ph \in ParentHashes(st, n) \cup {UnknownHash}} :
        n \in 0..MaxNumber, txs \in TxLists}

\* the transaction lists of the payloads sent on top of the genesis block
SiblingTxLists == {<<1, 2>>, <<3>>}

\* payloads of number 1 on top of the genesis block that pass every check
\* made before execution
SiblingRequests ==
    {[payload |-> [number |-> 1, timestamp |-> 2,
                   parent_hash |-> compute_block_hash(GenesisHeader),
                   transactions |-> txs,
                   block_hash |-> compute_block_hash(
                        [number |-> 1, timestamp |-> 2,
                         parent_hash |-> compute_block_hash(GenesisHeader),
                         transactions_root |-> txs])],
      expected_blob_versioned_hashes |-> flat_blob_versioned_hashes(txs)] :
        txs \in SiblingTxLists}

\* the call of task t ends with res after making the steps more
Finish(t, more, res) ==
    call' = [call EXCEPT ![t].pc = "done", ![t].result = res,
                         ![t].steps = @ \o more]

\* the Store call named what fails (at most MaxFaults Store calls fail in a
\* run) and the call of task t ends with res
StoreFails(t, what, res) ==
    /\ faults < MaxFaults
    /\ faults' = faults + 1
    /\ call' = [call EXCEPT ![t].pc = "done", ![t].result = res,
                            ![t].steps = Append(@, what),
                            ![t].failed = what]

Init ==
    /\ \E cancun \in {None, Some(1)} : store = GenesisStore(cancun)
    /\ call = [t \in Tasks |-> IF t = 1 THEN Fresh("idle") ELSE Fresh("off")]
    /\ faults = 0
    /\ calls = 0

\* ------------------------------------------------------------------------
\* new_payload_v3, step by step
\* ------------------------------------------------------------------------
\* a fork gate that lets the block at the activation time pass
fork_gate_at_activation(cancun_time, block) ==
    IsSome(cancun_time) /\ block.header.timestamp >= Unwrap(cancun_time)

\* the fork gate: Cancun is configured and the block is after its activation
fork_gate(cancun_time, block) ==
    IsSome(cancun_time) /\ block.header.timestamp > Unwrap(cancun_time)

\* a hash check that accepts every hash
block_hash_unchecked(block_hash, header) == TRUE

\* "Check that block_hash is valid"
block_hash_matches(block_hash, header) == block_hash = compute_block_hash(header)

\* the expected list matches the concatenated list of the transactions
blob_hashes_match(expected, transactions) ==
    expected = flat_blob_versioned_hashes(transactions)

\* a header check that does not validate the header against its parent
header_check_unvalidated(header, parent_header) ==
    IF IsNone(parent_header) THEN "SYNCING" ELSE "OK"

\* a header check that goes on when the parent is missing
header_check_missing_ok(header, parent_header) ==
    IF IsNone(parent_header) THEN "OK"
    ELSE IF ~validate_block_header(header, Unwrap(parent_header)) THEN "INVALID"
    ELSE "OK"

\* "Fetch parent block header and validate current header": what the call
\* does with the header found at the parent's number
header_check(header, parent_header) ==
    IF IsNone(parent_header) THEN "SYNCING"
    ELSE IF ~validate_block_header(header, Unwrap(parent_header)) THEN "INVALID"
    ELSE "OK"

\* the Store after a run that wrote its changes through to the Store
store_after_run_written_through(st, es) ==
    LET RECURSIVE all(_, _)
        all(x, ws) == IF ws = <<>> THEN x ELSE all(DoWrite(x, Head(ws)), Tail(ws))
    IN all(st, BundleWrites(take_bundle(es), AscendingAddrs(take_bundle(es)), AscendingKeys))

\* the Store after run_evm ("doesn't perform state transitions, but stores
\* them"): as before, the changes are in the backend state es
store_after_run(st, es) == st

\* checks that compare the block hash before they look at the fork
check_payload_hash_before_gate(request, cancun_ok, cancun_time) ==
    LET block == into_block(request.payload) IN
    IF ~block.ok
    THEN [result |-> invalid_with_err("deserialisation error"),
          steps |-> <<"into_block">>, failed |-> ""]
    ELSE IF ~block_hash_matches(request.payload.block_hash, block.header)
    THEN [result |-> invalid_with_err("Invalid block hash"),
          steps |-> <<"into_block", "block_hash">>,
          failed |-> ""]
    ELSE IF ~cancun_ok
    THEN [result |-> RpcError("Internal"),
          steps |-> <<"into_block", "block_hash", "get_cancun_time">>,
          failed |-> "get_cancun_time"]
    ELSE IF ~fork_gate(cancun_time, block)
    THEN [result |-> RpcError("UnsuportedFork"),
          steps |-> <<"into_block", "block_hash", "get_cancun_time", "fork_gate">>,
          failed |-> ""]
    ELSE IF ~blob_hashes_match(request.expected_blob_versioned_hashes,
                               block.transactions)
    THEN [result |-> invalid_with_err("Invalid blob_versioned_hashes"),
          steps |-> <<"into_block", "block_hash", "get_cancun_time", "fork_gate",
                      "blob_hashes">>,
          failed |-> ""]
    ELSE [result |-> NoResult,
          steps |-> <<"into_block", "block_hash", "get_cancun_time", "fork_gate",
                      "blob_hashes">>,
          failed |-> ""]

\* the checks made before the parent lookup: the result (NoResult when they
\* all pass) and the steps made; cancun_ok is false when get_cancun_time fails
check_payload(request, cancun_ok, cancun_time) ==
    LET block == into_block(request.payload) IN
    IF ~block.ok
    THEN [result |-> invalid_with_err("deserialisation error"),
          steps |-> <<"into_block">>, failed |-> ""]
    ELSE IF ~cancun_ok
    THEN [result |-> RpcError("Internal"),
          steps |-> <<"into_block", "get_cancun_time">>,
          failed |-> "get_cancun_time"]
    ELSE IF ~fork_gate(cancun_time, block)
    THEN [result |-> RpcError("UnsuportedFork"),
          steps |-> <<"into_block", "get_cancun_time", "fork_gate">>,
          failed |-> ""]
    ELSE IF ~block_hash_matches(request.payload.block_hash, block.header)
    THEN [result |-> invalid_with_err("Invalid block hash"),
          steps |-> <<"into_block", "get_cancun_time", "fork_gate", "block_hash">>,
          failed |-> ""]
    ELSE IF ~blob_hashes_match(request.expected_blob_versioned_hashes,
                               block.transactions)
    THEN [result |-> invalid_with_err("Invalid blob_versioned_hashes"),
          steps |-> <<"into_block", "get_cancun_time", "fork_gate", "block_hash",
                      "blob_hashes">>,
          failed |-> ""]
    ELSE [result |-> NoResult,
          steps |-> <<"into_block", "get_cancun_time", "fork_gate", "block_hash",
                      "blob_hashes">>,
          failed |-> ""]

\* a request out of requests arrives: decoding, fork gate, block hash and
\* blob hashes
ReceiveFrom(t, requests) ==
    /\ call[t].pc = "idle"
    /\ calls < MaxCalls
    /\ calls' = calls + 1
    /\ \E request \in requests, cancun_ok \in BOOLEAN :
        LET block == into_block(request.payload)
            chk == check_payload(request, cancun_ok, get_cancun_time(store))
        IN
        /\ cancun_ok \/ (block.ok /\ faults < MaxFaults)
        /\ faults' = IF cancun_ok THEN faults ELSE faults + 1
        /\ call' = [call EXCEPT ![t] =
                [Fresh(IF chk.result = NoResult THEN "parent" ELSE "done") EXCEPT
                    !.request = request,
                    !.block = IF block.ok
                              THEN [header |-> block.header,
                                    transactions |-> block.transactions]
                              ELSE NoBlock,
                    !.result = chk.result,
                    !.steps = chk.steps,
                    !.failed = chk.failed,
                    !.before = Some(store)]]
    /\ UNCHANGED store

\* a request of a consensus client arrives
Receive(t) == ReceiveFrom(t, Requests(store))

\* a payload on top of the genesis block arrives
ReceiveSibling(t) == ReceiveFrom(t, SiblingRequests)

\* a parent lookup that indexes the block hash before it validates the header
ParentLookup_index_first(t) ==
    /\ call[t].pc = "parent"
    /\ \/ /\ StoreFails(t, "get_block_header", RpcError("Internal"))
          /\ UNCHANGED store
       \/ /\ faults' = faults
          /\ store' = add_block_number(store, call[t].request.payload.block_hash,
                                       call[t].block.header.number)
          /\ LET parent_header ==
                    get_block_header(store,
                        saturating_sub(call[t].block.header.number, 1))
                 checked == header_check(call[t].block.header, parent_header)
             IN IF checked = "SYNCING"
                THEN Finish(t, <<"get_block_header">>, syncing)
                ELSE IF checked = "INVALID"
                THEN call' = [call EXCEPT
                        ![t].pc = "done",
                        ![t].parent_header = parent_header,
                        ![t].steps = @ \o <<"get_block_header", "validate_block_header">>,
                        ![t].result = invalid_with_hash(
                            compute_block_hash(Unwrap(parent_header)))]
                ELSE call' = [call EXCEPT
                        ![t].pc = "execute",
                        ![t].parent_header = parent_header,
                        ![t].steps = @ \o <<"get_block_header", "validate_block_header">>,
                        ![t].state = evm_state]
    /\ UNCHANGED calls

\* the parent header is fetched and the header validated against it
ParentLookup(t) ==
    /\ call[t].pc = "parent"
    /\ \/ StoreFails(t, "get_block_header", RpcError("Internal"))
       \/ /\ faults' = faults
          /\ LET parent_header ==
                    get_block_header(store,
                        saturating_sub(call[t].block.header.number, 1))
                 checked == header_check(call[t].block.header, parent_header)
             IN IF checked = "SYNCING"
                THEN Finish(t, <<"get_block_header">>, syncing)
                ELSE IF checked = "INVALID"
                THEN call' = [call EXCEPT
                        ![t].pc = "done",
                        ![t].parent_header = parent_header,
                        ![t].steps = @ \o <<"get_block_header", "validate_block_header">>,
                        ![t].result = invalid_with_hash(
                            compute_block_hash(Unwrap(parent_header)))]
                ELSE call' = [call EXCEPT
                        ![t].pc = "execute",
                        ![t].parent_header = parent_header,
                        ![t].steps = @ \o <<"get_block_header", "validate_block_header">>,
                        ![t].state = evm_state]
    /\ UNCHANGED <<store, calls>>

\* the step of a run of tx whose next call of the database view is rd
ExecuteStep(t, tx, rd) ==
    IF rd # NoRead /\ next_read(tx_env(tx), after_read(call[t].state, rd, store)) # NoRead
    THEN /\ call' = [call EXCEPT
                ![t].state = after_read(call[t].state, rd, store),
                ![t].reads = @ \cup {ReadOf(rd, store)}]
         /\ store' = store
    ELSE /\ store' = store_after_run(store,
                        execute_tx(tx, after_read(call[t].state, rd, store), store).state)
         /\ call' = [call EXCEPT
                ![t].state = execute_tx(tx, after_read(call[t].state, rd, store),
                                        store).state,
                ![t].steps = Append(@, "execute_tx"),
                ![t].reads = IF rd = NoRead THEN @ ELSE @ \cup {ReadOf(rd, store)},
                ![t].next_tx =
                    IF execute_tx(tx, after_read(call[t].state, rd, store), store).ok
                    THEN @ + 1 ELSE @,
                ![t].pc =
                    IF execute_tx(tx, after_read(call[t].state, rd, store), store).ok
                    THEN @ ELSE "done",
                ![t].result =
                    IF execute_tx(tx, after_read(call[t].state, rd, store), store).ok
                    THEN @ ELSE RpcError("Vm")]

\* execute_block: the run of the next transaction of the block makes its
\* next call of the database view on the Store as it is now; the call may
\* fail, which ends the run with an error.  With the answer to its last call
\* (or with none to make) the run ends and commits to the backend state
ExecuteTx(t) ==
    /\ call[t].pc = "execute"
    /\ call[t].next_tx <= Len(call[t].block.transactions)
    /\ \/ /\ next_read(tx_env(TxTable[call[t].block.transactions[call[t].next_tx]]),
                       call[t].state) # NoRead
          /\ StoreFails(t,
                StoreCallOf(next_read(
                    tx_env(TxTable[call[t].block.transactions[call[t].next_tx]]),
                    call[t].state)),
                RpcError("Vm"))
          /\ UNCHANGED store
       \/ /\ faults' = faults
          /\ ExecuteStep(t, TxTable[call[t].block.transactions[call[t].next_tx]],
                         next_read(
                            tx_env(TxTable[call[t].block.transactions[call[t].next_tx]]),
                            call[t].state))
    /\ UNCHANGED calls

\* an apply that reads the bundle and leaves it in the backend state
ApplyBegin_bundle_kept(t) ==
    /\ call[t].pc = "execute"
    /\ call[t].next_tx > Len(call[t].block.transactions)
    /\ \E addrs \in Orders(WritingAddrs(take_bundle(call[t].state))),
          keys \in KeyOrders(take_bundle(call[t].state)) :
        LET bundle == take_bundle(call[t].state)
            writes == BundleWrites(bundle, addrs, keys)
        IN call' = [call EXCEPT
                ![t].pc = IF writes = <<>> THEN "add_block_number" ELSE "apply",
                ![t].steps = Append(@, "apply_state_transitions"),
                ![t].bundle = bundle,
                ![t].writes = writes]
    /\ UNCHANGED <<store, faults, calls>>

\* execute_block: after the last transaction apply_state_transitions merges
\* the transitions and takes the bundle
ApplyBegin(t) ==
    /\ call[t].pc = "execute"
    /\ call[t].next_tx > Len(call[t].block.transactions)
    /\ \E addrs \in Orders(WritingAddrs(take_bundle(call[t].state))),
          keys \in KeyOrders(take_bundle(call[t].state)) :
        LET bundle == take_bundle(call[t].state)
            writes == BundleWrites(bundle, addrs, keys)
        IN call' = [call EXCEPT
                ![t].pc = IF writes = <<>> THEN "add_block_number" ELSE "apply",
                ![t].state = [@ EXCEPT !.transition_state = EmptyTransitions],
                ![t].steps = Append(@, "apply_state_transitions"),
                ![t].bundle = bundle,
                ![t].writes = writes]
    /\ UNCHANGED <<store, faults, calls>>

\* an apply that undoes its writes when one of them fails
ApplyWrite_rollback(t) ==
    /\ call[t].pc = "apply"
    /\ \/ /\ StoreFails(t, Head(call[t].writes).op, RpcError("Vm"))
          /\ store' = Unwrap(call[t].before)
       \/ /\ faults' = faults
          /\ store' = DoWrite(store, Head(call[t].writes))
          /\ call' = [call EXCEPT
                ![t].writes = Tail(@),
                ![t].written = Append(@, Head(call[t].writes).op),
                ![t].log = Append(@, Head(call[t].writes)),
                ![t].pc = IF Len(call[t].writes) = 1 THEN "add_block_number"
                          ELSE "apply"]
    /\ UNCHANGED calls

\* apply_state_transitions: the next write of the bundle goes to the Store;
\* a failing write ends execute_block with an error
ApplyWrite(t) ==
    /\ call[t].pc = "apply"
    /\ \/ /\ StoreFails(t, Head(call[t].writes).op, RpcError("Vm"))
          /\ UNCHANGED store
       \/ /\ faults' = faults
          /\ store' = DoWrite(store, Head(call[t].writes))
          /\ call' = [call EXCEPT
                ![t].writes = Tail(@),
                ![t].written = Append(@, Head(call[t].writes).op),
                ![t].log = Append(@, Head(call[t].writes)),
                ![t].pc = IF Len(call[t].writes) = 1 THEN "add_block_number"
                          ELSE "apply"]
    /\ UNCHANGED calls

\* an indexing step that ignores the error of add_block_number
AddBlockNumber_error_ignored(t) ==
    /\ call[t].pc = "add_block_number"
    /\ \/ /\ faults < MaxFaults
          /\ faults' = faults + 1
          /\ call' = [call EXCEPT ![t].pc = "add_block"]
          /\ UNCHANGED store
       \/ /\ faults' = faults
          /\ store' = add_block_number(store, call[t].request.payload.block_hash,
                                       call[t].block.header.number)
          /\ call' = [call EXCEPT ![t].pc = "add_block",
                                  ![t].written = Append(@, "add_block_number")]
    /\ UNCHANGED calls

\* the block hash is indexed
AddBlockNumber(t) ==
    /\ call[t].pc = "add_block_number"
    /\ \/ /\ StoreFails(t, "add_block_number", RpcError("Internal"))
          /\ UNCHANGED store
       \/ /\ faults' = faults
          /\ store' = add_block_number(store, call[t].request.payload.block_hash,
                                       call[t].block.header.number)
          /\ call' = [call EXCEPT ![t].pc = "add_block",
                                  ![t].written = Append(@, "add_block_number")]
    /\ UNCHANGED calls

\* the block is stored and the call answers VALID
AddBlock(t) ==
    /\ call[t].pc = "add_block"
    /\ \/ /\ StoreFails(t, "add_block", RpcError("Internal"))
          /\ UNCHANGED store
       \/ /\ faults' = faults
          /\ store' = add_block(store, call[t].block)
          /\ call' = [call EXCEPT
                ![t].pc = "done",
                ![t].written = Append(@, "add_block"),
                ![t].result = valid_with_hash(call[t].request.payload.block_hash)]
    /\ UNCHANGED calls

\* the response is sent and the task takes the next request
Return(t) ==
    /\ call[t].pc = "done"
    /\ call' = [call EXCEPT ![t] = Fresh("idle")]
    /\ UNCHANGED <<store, faults, calls>>

Next ==
    \E t \in Tasks :
        \/ Receive(t)
        \/ ParentLookup(t)
        \/ ExecuteTx(t)
        \/ ApplyBegin(t)
        \/ ApplyWrite(t)
        \/ AddBlockNumber(t)
        \/ AddBlock(t)
        \/ Return(t)

Spec == Init /\ [][Next]_vars

\* a request is cancelled (the 30 s timeout of the transport fires, or the
\* connection is dropped): the request future is dropped at a point where it
\* is suspended.  A handler is an async fn whose body has no await, and
\* new_payload_v3 is a plain fn that uses the result of every Store call at
\* once (map_err and ?), so no Store call is a suspension point: the one
\* point where a request can be cancelled is the extraction of the request
\* body, before the handler body runs and before any Store call.  The
\* timeout error is answered with the Internal error.  A handler whose body
\* has started runs to its return
Abort(t) ==
    /\ call[t].pc = "idle"
    /\ calls < MaxCalls
    /\ calls' = calls + 1
    /\ call' = [call EXCEPT ![t] =
            [Fresh("done") EXCEPT !.failed = "aborted",
                                  !.result = RpcError("Internal"),
                                  !.before = Some(store)]]
    /\ UNCHANGED <<store, faults>>

\* a request whose body is not a well-formed JSON-RPC request arrives: the
\* unwrap of the handler panics, the panic layer of the transport catches it
\* and answers with the Internal error; the task takes the next request
MalformedBody(t) ==
    /\ call[t].pc = "idle"
    /\ calls < MaxCalls
    /\ calls' = calls + 1
    /\ call' = [call EXCEPT ![t] =
            [Fresh("done") EXCEPT !.steps = <<"from_str">>,
                                  !.failed = "panic",
                                  !.result = RpcError("Internal"),
                                  !.before = Some(store)]]
    /\ UNCHANGED <<store, faults>>

NextTransport ==
    \E t \in Tasks :
        \/ MalformedBody(t)
        \/ Receive(t)
        \/ ParentLookup(t)
        \/ ExecuteTx(t)
        \/ ApplyBegin(t)
        \/ ApplyWrite(t)
        \/ AddBlockNumber(t)
        \/ AddBlock(t)
        \/ Return(t)
        \/ Abort(t)

\* requests are handled one at a time under the panic and timeout layers of
\* the transport
SpecTransport == Init /\ [][NextTransport]_vars

\* Two request handlers run in parallel on one shared Store; every Store
\* call is atomic, the calls of the two handlers interleave
InitConcurrent ==
    /\ store = GenesisStore(Some(1))
    /\ call = [t \in Tasks |-> Fresh("idle")]
    /\ faults = 0
    /\ calls = 0

NextConcurrent ==
    \E t \in Tasks :
        \/ ReceiveSibling(t)
        \/ ParentLookup(t)
        \/ ExecuteTx(t)
        \/ ApplyBegin(t)
        \/ ApplyWrite(t)
        \/ AddBlockNumber(t)
        \/ AddBlock(t)
        \/ Return(t)

SpecConcurrent == InitConcurrent /\ [][NextConcurrent]_vars

\* highest number of uses of the adapter on one backend state
MaxSessionSteps == 2

\* evm_state(store): a backend state is built over the Store as it is after
\* start-up
OpenSession(t) ==
    /\ call[t].pc = "idle"
    /\ calls = 0
    /\ calls' = calls + 1
    /\ call' = [call EXCEPT ![t] =
            [Fresh("session") EXCEPT !.state = evm_state, !.before = Some(store)]]
    /\ UNCHANGED <<store, faults>>

\* the backend state after the first n reads of a run of env
RECURSIVE load_upto(_, _, _, _)
load_upto(env, es, st, n) ==
    IF n = 0 \/ next_read(env, es) = NoRead THEN es
    ELSE load_upto(env, after_read(es, next_read(env, es), st), st, n - 1)

\* a commit-mode run of env on the backend state of task t ends with an error
\* because one of its reads of the Store fails, after n reads that did not
SessionReadFails(t, env, n) ==
    /\ next_read(env, load_upto(env, call[t].state, store, n)) # NoRead
    /\ n > 0 => load_upto(env, call[t].state, store, n)
                    # load_upto(env, call[t].state, store, n - 1)
    /\ faults < MaxFaults
    /\ faults' = faults + 1
    /\ call' = [call EXCEPT
            ![t].pc = "done",
            ![t].result = RpcError("Vm"),
            ![t].state = load_upto(env, call[t].state, store, n),
            ![t].steps = Append(@, StoreCallOf(
                next_read(env, load_upto(env, call[t].state, store, n)))),
            ![t].failed = StoreCallOf(
                next_read(env, load_upto(env, call[t].state, store, n)))]
    /\ UNCHANGED store

\* the locals c of a task after a commit-mode run named op has returned r
Ran(c, op, id, r) ==
    [c EXCEPT !.state = r.state,
              !.steps = Append(@, op),
              !.session = [NoSession EXCEPT !.op = op, !.tx = id, !.ok = r.ok,
                                            !.prior = c.state]]

\* execute_tx on the backend state: the transaction is run in commit mode
SessionExecuteTx(t) ==
    /\ call[t].pc = "session"
    /\ Len(call[t].steps) < MaxSessionSteps
    /\ \E id \in TxIds :
        \/ \E n \in 0..Cardinality(Addrs) : SessionReadFails(t, tx_env(TxTable[id]), n)
        \/ /\ store' = store_after_run(store,
                            execute_tx(TxTable[id], call[t].state, store).state)
           /\ call' = [call EXCEPT ![t] =
                    Ran(call[t], "execute_tx", id,
                        execute_tx(TxTable[id], call[t].state, store))]
           /\ faults' = faults
    /\ UNCHANGED calls

\* beacon_root_contract_call on the backend state: the system call is run in
\* commit mode
BeaconRootContractCall(t) ==
    /\ call[t].pc = "session"
    /\ Len(call[t].steps) < MaxSessionSteps
    /\ \E beacon_root \in {compute_block_hash(GenesisHeader)} :
        \/ \E n \in 0..Cardinality(Addrs) :
                SessionReadFails(t, beacon_root_env(beacon_root), n)
        \/ /\ store' = store_after_run(store,
                    beacon_root_contract_call(call[t].state, beacon_root, store).state)
           /\ call' = [call EXCEPT ![t] =
                    Ran(call[t], "beacon_root_contract_call", 0,
                        beacon_root_contract_call(call[t].state, beacon_root, store))]
           /\ faults' = faults
    /\ UNCHANGED calls

\* the locals c of a task after the adapter function op has returned r for
\* the generic transaction id
Called(c, op, id, nonce, r) ==
    [c EXCEPT !.state = r.state,
              !.steps = Append(@, op),
              !.session = [NoSession EXCEPT
                    !.op = op, !.tx = id, !.nonce = nonce,
                    !.ok = r.ok, !.result = r.result,
                    !.access_list = r.access_list, !.runs = r.runs,
                    !.prior = c.state]]

\* create_access_list on the backend state; a failing read of the Store, in
\* the inspector or in either run, ends it with an error
CreateAccessList(t) ==
    /\ call[t].pc = "session"
    /\ Len(call[t].steps) < MaxSessionSteps
    /\ \E id \in DOMAIN GenericTxTable, nonce \in GenericNonces :
        \E addrs \in Orders(InspectedAddrs(
                        tx_env_from_generic(GenericTxTable[id], nonce),
                        call[t].state, store)) :
            \/ \E fail_at \in DOMAIN create_access_list_reads(
                                    GenericTxTable[id], nonce, call[t].state, store,
                                    addrs) :
                /\ faults < MaxFaults
                /\ faults' = faults + 1
                /\ call' = [call EXCEPT ![t] =
                        [Called(call[t], "create_access_list", id, nonce,
                                create_access_list(GenericTxTable[id], nonce,
                                                   call[t].state, store, addrs, fail_at))
                            EXCEPT !.pc = "done",
                                   !.failed = "database",
                                   !.result = RpcError("Vm")]]
            \/ /\ faults' = faults
               /\ call' = [call EXCEPT ![t] =
                    Called(call[t], "create_access_list", id, nonce,
                           create_access_list(GenericTxTable[id], nonce, call[t].state,
                                              store, addrs, 0))]
    /\ UNCHANGED <<store, calls>>

\* the transaction of the last create_access_list with the returned list
\* merged into its own list
MergedTx(session) ==
    [GenericTxTable[session.tx] EXCEPT !.access_list = @ \o session.access_list]

\* the locals c of a task after the second create_access_list has returned r
\* for the transaction with the list merged
CalledAgain(c, merged, r) ==
    [c EXCEPT !.state = r.state,
              !.session = [@ EXCEPT
                    !.op = "create_access_list_again",
                    !.again = [ok |-> r.ok, access_list |-> r.access_list,
                               merged |-> merged]]]

\* create_access_list is called again, on the backend state of the first
\* call, for the transaction with the returned list merged into its own
CreateAccessListAgain(t) ==
    /\ call[t].pc = "session"
    /\ call[t].session.op = "create_access_list"
    /\ call[t].session.ok
    /\ \E addrs \in Orders(InspectedAddrs(
                    tx_env_from_generic(MergedTx(call[t].session),
                                        call[t].session.nonce),
                    call[t].session.prior, store)) :
        \/ \E fail_at \in DOMAIN create_access_list_reads(
                                MergedTx(call[t].session), call[t].session.nonce,
                                call[t].session.prior, store, addrs) :
            /\ faults < MaxFaults
            /\ faults' = faults + 1
            /\ call' = [call EXCEPT ![t] =
                    [CalledAgain(call[t], MergedTx(call[t].session).access_list,
                                 create_access_list(MergedTx(call[t].session),
                                                    call[t].session.nonce,
                                                    call[t].session.prior, store, addrs,
                                                    fail_at))
                        EXCEPT !.pc = "done",
                               !.failed = "database",
                               !.result = RpcError("Vm")]]
        \/ /\ faults' = faults
           /\ call' = [call EXCEPT ![t] =
                CalledAgain(call[t], MergedTx(call[t].session).access_list,
                            create_access_list(MergedTx(call[t].session),
                                               call[t].session.nonce,
                                               call[t].session.prior, store, addrs, 0))]
    /\ UNCHANGED <<store, calls>>

\* apply_state_transitions on the backend state: the transitions are merged
\* and the bundle is taken
SessionApplyBegin(t) ==
    /\ call[t].pc = "session"
    /\ \E addrs \in Orders(WritingAddrs(take_bundle(call[t].state))),
          keys \in KeyOrders(take_bundle(call[t].state)) :
        call' = [call EXCEPT
            ![t].pc = IF BundleWrites(take_bundle(call[t].state), addrs, keys) = <<>>
                      THEN "done" ELSE "session_apply",
            ![t].state = [@ EXCEPT !.transition_state = EmptyTransitions],
            ![t].bundle = take_bundle(call[t].state),
            ![t].steps = Append(@, "apply_state_transitions"),
            ![t].writes = BundleWrites(take_bundle(call[t].state), addrs, keys)]
    /\ UNCHANGED <<store, faults, calls>>

\* apply_state_transitions: the next write of the bundle goes to the Store; a
\* failing write ends it with an error and leaves the earlier writes in the
\* Store
SessionApplyWrite(t) ==
    /\ call[t].pc = "session_apply"
    /\ \/ /\ StoreFails(t, Head(call[t].writes).op, RpcError("Vm"))
          /\ UNCHANGED store
       \/ /\ faults' = faults
          /\ store' = DoWrite(store, Head(call[t].writes))
          /\ call' = [call EXCEPT
                ![t].writes = Tail(@),
                ![t].written = Append(@, Head(call[t].writes).op),
                ![t].log = Append(@, Head(call[t].writes)),
                ![t].pc = IF Len(call[t].writes) = 1 THEN "done"
                          ELSE "session_apply"]
    /\ UNCHANGED calls

NextAccessList ==
    \E t \in Tasks :
        \/ OpenSession(t)
        \/ BeaconRootContractCall(t)
        \/ SessionExecuteTx(t)
        \/ CreateAccessList(t)
        \/ CreateAccessListAgain(t)
        \/ SessionApplyBegin(t)
        \/ SessionApplyWrite(t)
        \/ Return(t)

\* the Store after a block whose transaction has the deployer create the
\* contract at address 2 was executed on the Store of start-up and its
\* changes were applied
DeployedStore ==
    LET es == execute_tx(TxTable[3], evm_state, GenesisStore(Some(1))).state IN
    apply_state_transitions(es, GenesisStore(Some(1)),
                            AscendingAddrs(take_bundle(es)), AscendingKeys).store

\* the Store after start-up, Cancun configured, or the Store with the
\* contract deployed
InitAccessList ==
    /\ store \in {GenesisStore(Some(1)), DeployedStore}
    /\ call = [t \in Tasks |-> IF t = 1 THEN Fresh("idle") ELSE Fresh("off")]
    /\ faults = 0
    /\ calls = 0

\* the adapter is used on one backend state over the Store
SpecAccessList == InitAccessList /\ [][NextAccessList]_vars

\* ------------------------------------------------------------------------
\* Properties of engine_newPayloadV3 and of apply_state_transitions

\* the call c has made the step named s
Reached(c, s) == \E i \in 1..Len(c.steps) : c.steps[i] = s

\* the call of task t has taken a request
Started(t) == call[t].pc \notin {"idle", "off"}

\* the call of task t has its response
Done(t) == call[t].pc = "done"

\* the call of task t answers VALID
Valid(t) ==
    /\ Done(t)
    /\ call[t].result.ok
    /\ call[t].result.status = "VALID"

\* apply_state_transitions has returned Ok in the call of task t and the call
\* has made no later Store write
AfterApplyOk(t) == call[t].pc = "add_block_number"

\* the hashes of the transactions, taken by position from the first to the
\* last
ConcatBlobHashes(txs) ==
    LET RECURSIVE upto(_)
        upto(n) == IF n = 0 THEN <<>>
                   ELSE upto(n - 1) \o TxTable[txs[n]].blob_versioned_hashes
    IN upto(Len(txs))

\* C1: a payload goes past the fork gate only when Cancun is configured and
\* its timestamp is strictly greater than the activation time; a payload at
\* the activation time or before it (or with no activation time) gets the
\* error UnsuportedFork, and a payload one second after it goes on to the
\* block hash check
C1_ForkGate ==
    \A t \in Tasks : Started(t) =>
        LET c == call[t]
            ts == c.request.payload.timestamp
            cancun_time == Unwrap(c.before).cancun_time
            after == IsSome(cancun_time) /\ ts > Unwrap(cancun_time)
        IN /\ Reached(c, "block_hash") => after
           /\ (Reached(c, "fork_gate") /\ ~after) =>
                /\ Done(t)
                /\ ~c.result.ok
                /\ c.result.err = "UnsuportedFork"
                /\ store = Unwrap(c.before)
           /\ (Reached(c, "fork_gate") /\ IsSome(cancun_time)
                    /\ ts = Unwrap(cancun_time) + 1) => Reached(c, "block_hash")

\* a payload whose timestamp is the activation time is rejected
C1_Witness ==
    \E t \in Tasks :
        /\ Done(t)
        /\ Reached(call[t], "fork_gate")
        /\ IsSome(store.cancun_time)
        /\ call[t].request.payload.timestamp = Unwrap(store.cancun_time)
        /\ call[t].result.err = "UnsuportedFork"

\* C2: a payload is VALID only if the hash of the reconstructed header is
\* the payload's block_hash; a payload that reaches the check with another
\* hash is INVALID with "Invalid block hash", is not executed and leaves the
\* Store as it was
C2_BlockHash ==
    \A t \in Tasks : Started(t) =>
        LET c == call[t]
            claimed == c.request.payload.block_hash
            actual == compute_block_hash(into_block(c.request.payload).header)
        IN /\ Valid(t) => claimed = actual
           /\ (Reached(c, "block_hash") /\ claimed # actual) =>
                /\ Done(t)
                /\ c.result = invalid_with_err("Invalid block hash")
                /\ ~Reached(c, "execute_tx")
                /\ c.written = <<>>
                /\ store = Unwrap(c.before)
                /\ IsNone(get_block_number(store, claimed))

\* a payload with a wrong block_hash has been answered
C2_Witness ==
    \E t \in Tasks :
        /\ Done(t)
        /\ Reached(call[t], "block_hash")
        /\ call[t].request.payload.block_hash
                # compute_block_hash(call[t].block.header)
        /\ call[t].result.status = "INVALID"

\* C3: a payload is VALID only if the expected blob versioned hashes are the
\* hashes of its transactions concatenated in transaction order; a payload
\* that reaches the check with another list is INVALID with
\* "Invalid blob_versioned_hashes" and leaves the Store as it was
C3_BlobHashes ==
    \A t \in Tasks : Started(t) =>
        LET c == call[t]
            expected == c.request.expected_blob_versioned_hashes
            actual == ConcatBlobHashes(c.block.transactions)
        IN /\ Valid(t) => expected = actual
           /\ (Reached(c, "blob_hashes") /\ expected # actual) =>
                /\ Done(t)
                /\ c.result = invalid_with_err("Invalid blob_versioned_hashes")
                /\ ~Reached(c, "execute_tx")
                /\ store = Unwrap(c.before)

\* a block of two blob transactions with different hashes is VALID
C3_Witness ==
    \E t \in Tasks :
        /\ Valid(t)
        /\ Len(call[t].block.transactions) = 2
        /\ Len(call[t].request.expected_blob_versioned_hashes) = 2
        /\ call[t].request.expected_blob_versioned_hashes[1]
                # call[t].request.expected_blob_versioned_hashes[2]

\* C4: a VALID payload had, when the call started, a header stored at
\* saturating_sub(number, 1), and its header validates against that header
C4_ParentBeforeChild ==
    \A t \in Tasks : Valid(t) =>
        LET c == call[t]
            parent_number == saturating_sub(c.block.header.number, 1)
            stored == get_block_header(Unwrap(c.before), parent_number)
        IN /\ IsSome(stored)
           /\ c.parent_header = stored
           /\ validate_block_header(c.block.header, Unwrap(stored))
           /\ c.block.header.parent_hash = compute_block_hash(Unwrap(stored))

\* a payload of number 1 on top of the genesis block is VALID
C4_Witness ==
    \E t \in Tasks :
        /\ Valid(t)
        /\ call[t].block.header.number = 1
        /\ call[t].parent_header = Some(GenesisHeader)

\* C5: when the lookup of the parent header succeeds and finds no header,
\* the answer is SYNCING with no latest valid hash, nothing is executed and
\* the Store is as it was
C5_MissingParentSyncing ==
    \A t \in Tasks : Started(t) =>
        LET c == call[t]
            parent_number == saturating_sub(c.request.payload.number, 1)
        IN (/\ Reached(c, "get_block_header")
            /\ c.failed # "get_block_header"
            /\ IsNone(get_block_header(Unwrap(c.before), parent_number))) =>
                /\ Done(t)
                /\ c.result.ok
                /\ c.result.status = "SYNCING"
                /\ IsNone(c.result.latest_valid_hash)
                /\ ~Reached(c, "execute_tx")
                /\ c.written = <<>>
                /\ store = Unwrap(c.before)

\* a payload of number 2 arrives when no header of number 1 is stored and is
\* answered SYNCING
C5_Witness ==
    \E t \in Tasks :
        /\ Done(t)
        /\ call[t].request.payload.number = 2
        /\ IsNone(get_block_header(store, 1))
        /\ call[t].result.status = "SYNCING"

\* C6: when the parent header is found and the header does not validate
\* against it, the answer is INVALID and its latest valid hash is the
\* parent_hash of the payload's header
C6_LatestValidHashIsPayloadParentHash ==
    \A t \in Tasks : Done(t) =>
        LET c == call[t] IN
        (/\ Reached(c, "validate_block_header")
         /\ ~validate_block_header(c.block.header, Unwrap(c.parent_header))) =>
            /\ c.result.status = "INVALID"
            /\ c.result.latest_valid_hash = Some(c.block.header.parent_hash)

\* C7: a VALID answer carries the payload's block hash as latest valid hash,
\* the Store then maps the block hash to the block's number and holds the
\* block at that number, the two writes were the last ones, in this order;
\* and a call that applied the state changes and met no Store error is VALID
C7_SuccessPath ==
    \A t \in Tasks : Done(t) =>
        LET c == call[t]
            block_hash == c.request.payload.block_hash
            number == c.block.header.number
            n == Len(c.written)
        IN /\ Valid(t) =>
                /\ c.result.latest_valid_hash = Some(block_hash)
                /\ get_block_number(store, block_hash) = Some(number)
                /\ get_block_header(store, number) = Some(c.block.header)
                /\ store.bodies[number] = Some(c.block.transactions)
                /\ n >= 2
                /\ c.written[n - 1] = "add_block_number"
                /\ c.written[n] = "add_block"
           /\ (Reached(c, "apply_state_transitions") /\ c.failed = "") => Valid(t)

\* a block with transactions is VALID
C7_Witness ==
    \E t \in Tasks :
        /\ Valid(t)
        /\ call[t].block.transactions # <<>>
        /\ Len(call[t].written) > 2

\* C8: while the transactions of a block are executed the Store is as it was
\* when the call started; the Store is written only after the last
\* transaction, from apply_state_transitions on
C8_NoStoreWriteDuringExecution ==
    \A t \in Tasks : Started(t) =>
        LET c == call[t] IN
        /\ c.pc \in {"parent", "execute"} =>
                /\ c.written = <<>>
                /\ store = Unwrap(c.before)
        /\ (c.written # <<>> \/ store # Unwrap(c.before)) =>
                /\ Reached(c, "apply_state_transitions")
                /\ c.next_tx > Len(c.block.transactions)
        /\ (Done(t) /\ ~Reached(c, "apply_state_transitions")) =>
                store = Unwrap(c.before)

\* a transaction has been executed, its changes are in the backend state and
\* the Store has not changed
C8_Witness ==
    \E t \in Tasks :
        /\ call[t].pc = "execute"
        /\ call[t].next_tx > 1
        /\ call[t].state.transition_state # EmptyTransitions
        /\ store = Unwrap(call[t].before)

\* C9 as stated: after apply_state_transitions has returned Ok, every
\* account the bundle marks as destroyed is absent from the Store and has no
\* storage there
C9_DestroyedAbsent ==
    \A t \in Tasks : AfterApplyOk(t) =>
        \A a \in Addrs :
            (/\ IsSome(call[t].bundle[a])
             /\ Unwrap(call[t].bundle[a]).status \in
                    {"Destroyed", "DestroyedChanged", "DestroyedAgain"}) =>
                /\ IsNone(get_account_info(store, a))
                /\ store.storage[a] = EmptyStorage

\* C9 for the accounts that were not created again: after
\* apply_state_transitions has returned Ok, every account the bundle marks as
\* destroyed and for which the bundle holds no present info is absent from
\* the Store and has no storage there
C9_DestroyedNotRecreatedAbsent ==
    \A t \in Tasks : AfterApplyOk(t) =>
        \A a \in Addrs :
            (/\ IsSome(call[t].bundle[a])
             /\ Unwrap(call[t].bundle[a]).status \in
                    {"Destroyed", "DestroyedChanged", "DestroyedAgain"}
             /\ IsNone(Unwrap(call[t].bundle[a]).info)) =>
                /\ IsNone(get_account_info(store, a))
                /\ store.storage[a] = EmptyStorage

\* an account that had info and storage in the Store was destroyed by the
\* block and the bundle has been applied
C9_Witness ==
    \E t \in Tasks : \E a \in Addrs :
        /\ AfterApplyOk(t)
        /\ IsSome(call[t].bundle[a])
        /\ Unwrap(call[t].bundle[a]).status = "Destroyed"
        /\ IsNone(Unwrap(call[t].bundle[a]).info)
        /\ IsSome(get_account_info(Unwrap(call[t].before), a))
        /\ Unwrap(call[t].before).storage[a] # EmptyStorage

\* C10: after apply_state_transitions has returned Ok, every slot of the
\* bundle whose present value differs from its previous value and is not
\* zero is in the Store under its 32-byte key with that value
C10_ChangedSlotsStored ==
    \A t \in Tasks : AfterApplyOk(t) =>
        \A a \in Addrs : IsSome(call[t].bundle[a]) =>
            \A k \in Keys :
                LET slots == Unwrap(call[t].bundle[a]).storage IN
                (/\ IsSome(slots[k])
                 /\ Unwrap(slots[k]).present_value
                        # Unwrap(slots[k]).previous_or_original_value
                 /\ Unwrap(slots[k]).present_value # 0) =>
                    get_storage_at(store, a, to_be_bytes(k))
                        = Some(to_be_bytes(Unwrap(slots[k]).present_value))

\* a slot that held a value in the Store has been changed to another
\* non-zero value and the bundle has been applied
C10_Witness ==
    \E t \in Tasks : \E a \in Addrs : \E k \in Keys :
        /\ AfterApplyOk(t)
        /\ IsSome(call[t].bundle[a])
        /\ IsSome(Unwrap(call[t].bundle[a]).storage[k])
        /\ Unwrap(Unwrap(call[t].bundle[a]).storage[k]).present_value = 2
        /\ Unwrap(Unwrap(call[t].bundle[a]).storage[k]).previous_or_original_value = 1

\* C11: when an account was destroyed and a contract was then created at its
\* address in the same block, after apply_state_transitions has returned Ok
\* the Store holds the new contract's info (and code) at the address, and a
\* slot of the address is in the Store exactly when the new contract wrote
\* it, with the value written; no slot from before the destruction remains
C11_DestroyThenRecreate ==
    \A t \in Tasks : AfterApplyOk(t) =>
        \A a \in Addrs :
            LET acc == Unwrap(call[t].bundle[a]) IN
            (/\ IsSome(call[t].bundle[a])
             /\ acc.status = "DestroyedChanged"
             /\ IsSome(acc.info)
             /\ Unwrap(acc.info).code_hash = ContractCodeHash) =>
                /\ get_account_info(store, a)
                        = Some([code_hash |-> ContractCodeHash,
                                balance |-> Unwrap(acc.info).balance,
                                nonce |-> Unwrap(acc.info).nonce])
                /\ get_account_code(store, ContractCodeHash) = Some(ContractCode)
                /\ \A k \in Keys :
                        get_storage_at(store, a, to_be_bytes(k))
                            = IF IsSome(acc.storage[k])
                                    /\ Unwrap(acc.storage[k]).present_value # 0
                              THEN Some(to_be_bytes(Unwrap(acc.storage[k]).present_value))
                              ELSE None

\* an account that held a slot in the Store was destroyed by the first
\* transaction of a block, a contract was created at its address by the
\* second, the bundle has been applied and the old slot is gone
C11_Witness ==
    \E t \in Tasks : \E a \in Addrs : \E k \in Keys :
        /\ AfterApplyOk(t)
        /\ Len(call[t].block.transactions) = 2
        /\ TxTable[call[t].block.transactions[1]].op = "create_destroy"
        /\ TxTable[call[t].block.transactions[1]].target = a
        /\ TxTable[call[t].block.transactions[2]].op = "create"
        /\ TxTable[call[t].block.transactions[2]].target = a
        /\ IsSome(call[t].bundle[a])
        /\ Unwrap(call[t].bundle[a]).status = "DestroyedChanged"
        /\ IsSome(get_storage_at(Unwrap(call[t].before), a, to_be_bytes(k)))
        /\ IsNone(get_storage_at(store, a, to_be_bytes(k)))

\* the call of task t has made some, and not all, of the Store writes of its
\* apply_state_transitions
MidApply(t) == call[t].pc = "apply" /\ call[t].written # <<>>

\* C12: the Store writes of the apply_state_transitions of two calls are not
\* interleaved: no call makes a write of its apply while another call is
\* between the first and the last write of its own
C12_ApplyNotInterleaved ==
    [][\A t \in Tasks :
        (call[t].pc = "apply" /\ call'[t].written # call[t].written) =>
            \A u \in Tasks \ {t} : ~MidApply(u)]_vars

\* C13, for the blocks whose parent is the genesis block (the post-apply
\* state of their parent is the Store as seeded at start-up): every account,
\* code and storage read the backend makes while executing the block returns
\* the value of that state, whatever other payloads are applied to the
\* shared Store before or during the execution
C13_ReadsSeeParentState ==
    \A t \in Tasks :
        (/\ Started(t)
         /\ call[t].block.header.number = 1
         /\ call[t].block.header.parent_hash = compute_block_hash(GenesisHeader)) =>
            \A r \in call[t].reads :
                /\ r.kind = "basic" =>
                        r.info = db_basic(GenesisStore(store.cancun_time), r.address)
                /\ r.kind = "storage" =>
                        r.value = db_storage(GenesisStore(store.cancun_time),
                                             r.address, r.index)

\* the Store calls the pipeline makes itself or through apply_state_transitions
PipelineStoreCalls ==
    {"get_cancun_time", "get_block_header", "remove_account", "add_account_info",
     "add_account_code", "add_storage_at", "add_block_number", "add_block"}

\* the call of task t has ended on a failed protocol validation: the payload
\* did not decode, or the block hash, the blob hashes or the header against
\* its parent did not match
ValidationFailed(t) ==
    LET c == call[t] IN
    /\ Done(t)
    /\ c.failed = ""
    /\ \/ ~into_block(c.request.payload).ok
       \/ Reached(c, "block_hash")
            /\ c.request.payload.block_hash # compute_block_hash(c.block.header)
       \/ Reached(c, "blob_hashes")
            /\ c.request.expected_blob_versioned_hashes
                    # ConcatBlobHashes(c.block.transactions)
       \/ Reached(c, "validate_block_header")
            /\ ~validate_block_header(c.block.header, Unwrap(c.parent_header))

\* C15: a call that ends on an error of the backend while executing a block
\* ends with RpcErr::Vm, a call that ends on a StoreError of one of the Store
\* calls of the pipeline (the writes of apply included) ends with
\* RpcErr::Internal, and a call that ends on a failed protocol validation
\* ends with an Ok response of status INVALID
C15_ErrorMapping ==
    \A t \in Tasks : Done(t) =>
        LET c == call[t] IN
        /\ (c.failed \in {"get_account_info", "get_storage_at"}
                \/ (c.failed = "" /\ Reached(c, "execute_tx")
                        /\ ~Reached(c, "apply_state_transitions"))) =>
                (~c.result.ok /\ c.result.err = "Vm")
        /\ c.failed \in PipelineStoreCalls =>
                (~c.result.ok /\ c.result.err = "Internal")
        /\ ValidationFailed(t) => (c.result.ok /\ c.result.status = "INVALID")

\* C16: a panic raised inside a request handler is answered by the
\* transport with the Internal error (-32603) and the task goes on to take
\* requests; and no request, whatever its body, makes its handler panic:
\* untrusted input gets an explicit error return
C16_PanicDiscipline ==
    \A t \in Tasks : Done(t) =>
        /\ call[t].failed = "panic" =>
                /\ ~call[t].result.ok
                /\ call[t].result.err = "Internal"
                /\ error_code(call[t].result.err) = -32603
                /\ ENABLED Return(t)
        /\ call[t].failed # "panic"

\* the checks of new_payload_v3 in the order of the pipeline
ChecksInOrder ==
    <<"into_block", "get_cancun_time", "fork_gate", "block_hash", "blob_hashes",
      "get_block_header", "validate_block_header">>

\* the position in ChecksInOrder of the first check the call of task t fails
\* (0 when it passes them all), worked out from the request, the Store at
\* the start of the call and the Store call that failed
FirstFailingCheck(t) ==
    LET c == call[t]
        p == c.request.payload
        blk == into_block(p)
        cancun_time == Unwrap(c.before).cancun_time
        parent == get_block_header(Unwrap(c.before), saturating_sub(p.number, 1))
    IN IF ~blk.ok THEN 1
       ELSE IF c.failed = "get_cancun_time" THEN 2
       ELSE IF ~(IsSome(cancun_time) /\ p.timestamp > Unwrap(cancun_time)) THEN 3
       ELSE IF p.block_hash # compute_block_hash(blk.header) THEN 4
       ELSE IF c.request.expected_blob_versioned_hashes
                    # ConcatBlobHashes(blk.transactions) THEN 5
       ELSE IF c.failed = "get_block_header" \/ IsNone(parent) THEN 6
       ELSE IF ~validate_block_header(blk.header, Unwrap(parent)) THEN 7
       ELSE 0

\* the outcome of a call that fails the check at position i
OutcomeOfCheck(t, i) ==
    LET c == call[t]
        r == c.result
        parent == get_block_header(Unwrap(c.before),
                                   saturating_sub(c.request.payload.number, 1))
    IN CASE i = 1 -> r.ok /\ r.status = "INVALID" /\ IsNone(r.latest_valid_hash)
         [] i = 2 -> ~r.ok /\ r.err = "Internal"
         [] i = 3 -> ~r.ok /\ r.err = "UnsuportedFork"
         [] i = 4 -> r.ok /\ r.status = "INVALID"
                        /\ r.validation_error = Some("Invalid block hash")
         [] i = 5 -> r.ok /\ r.status = "INVALID"
                        /\ r.validation_error = Some("Invalid blob_versioned_hashes")
         [] i = 6 -> IF c.failed = "get_block_header"
                     THEN ~r.ok /\ r.err = "Internal"
                     ELSE r.ok /\ r.status = "SYNCING"
         [] i = 7 -> r.ok /\ r.status = "INVALID"
                        /\ r.latest_valid_hash
                                = Some(compute_block_hash(Unwrap(parent)))

\* the place of a step or write in the order of the pipeline
StepRank(step) ==
    CASE step \in {"execute_tx", "get_account_info", "get_storage_at"} -> 8
      [] step = "apply_state_transitions" -> 9
      [] step \in {"remove_account", "add_account_info", "add_account_code",
                   "add_storage_at"} -> 10
      [] step = "add_block_number" -> 11
      [] step = "add_block" -> 12
      [] OTHER -> CHOOSE i \in 1..Len(ChecksInOrder) : ChecksInOrder[i] = step

\* seq never goes back in the order of the pipeline, and makes each of the
\* steps that are made once at most once
InPipelineOrder(seq) ==
    \A i \in 1..Len(seq) : \A j \in 1..Len(seq) :
        i < j =>
            /\ StepRank(seq[i]) <= StepRank(seq[j])
            /\ StepRank(seq[i]) \in {9, 11, 12} => StepRank(seq[i]) < StepRank(seq[j])

\* C17: the steps of a call are made in the order deserialisation, fork
\* gate, block hash, blob hashes, parent lookup, header validation,
\* execution, apply, add_block_number, add_block; a call that fails a check
\* has made exactly the checks up to that one, no Store write, and has the
\* outcome of that check; a call that passes them all executes every
\* transaction before apply and writes the index and the block last
C17_ValidationOrder ==
    \A t \in Tasks : Done(t) =>
        LET c == call[t]
            i == FirstFailingCheck(t)
            n == Len(ChecksInOrder)
        IN IF i > 0
           THEN /\ c.steps = SubSeq(ChecksInOrder, 1, i)
                /\ c.written = <<>>
                /\ store = Unwrap(c.before)
                /\ OutcomeOfCheck(t, i)
           ELSE /\ Len(c.steps) > n
                /\ SubSeq(c.steps, 1, n) = ChecksInOrder
                /\ InPipelineOrder(SubSeq(c.steps, n + 1, Len(c.steps)))
                /\ InPipelineOrder(c.written)
                /\ Reached(c, "apply_state_transitions") =>
                        Cardinality({k \in 1..Len(c.steps) : c.steps[k] = "execute_tx"})
                            = Len(c.block.transactions)
                /\ c.written # <<>> => Reached(c, "apply_state_transitions")
                /\ Valid(t) <=> (c.written # <<>>
                                    /\ c.written[Len(c.written)] = "add_block")

\* a payload with a wrong block hash whose parent is not stored has been
\* answered INVALID, not SYNCING
C17_Witness ==
    \E t \in Tasks :
        /\ Done(t)
        /\ call[t].request.payload.number = 2
        /\ IsNone(get_block_header(store, 1))
        /\ call[t].request.payload.block_hash
                # compute_block_hash(call[t].block.header)
        /\ call[t].result.status = "INVALID"
        /\ call[t].steps = SubSeq(ChecksInOrder, 1, 4)

\* the writes apply_state_transitions has made for address a in the call of
\* task t, in the order made
WritesOf(t, a) ==
    LET is_of(w) == w.address = a IN SelectSeq(call[t].log, is_of)

\* the names of the Store calls of a sequence of writes
OpsOf(ws) == [i \in 1..Len(ws) |-> ws[i].op]

\* the bundle account has a present info that differs from the original one
\* in balance, nonce or code hash
InfoChanged(acc) ==
    /\ IsSome(acc.info)
    /\ \/ IsNone(acc.original_info)
       \/ Unwrap(acc.info).balance # Unwrap(acc.original_info).balance
       \/ Unwrap(acc.info).nonce # Unwrap(acc.original_info).nonce
       \/ Unwrap(acc.info).code_hash # Unwrap(acc.original_info).code_hash

\* the bundle account has a present info with code whose code hash differs
\* from the original one
CodeChanged(acc) ==
    /\ IsSome(acc.info)
    /\ IsSome(Unwrap(acc.info).code)
    /\ \/ IsNone(acc.original_info)
       \/ Unwrap(acc.info).code_hash # Unwrap(acc.original_info).code_hash

\* the keys of the slots the bundle account marks changed
ChangedKeys(acc) ==
    {k \in Keys : /\ IsSome(acc.storage[k])
                  /\ Unwrap(acc.storage[k]).present_value
                        # Unwrap(acc.storage[k]).previous_or_original_value}

\* the writes ws end with one add_storage_at per changed slot of acc, with
\* its key and present value, after the account writes named by ops
WritesAre(ws, ops, acc) ==
    /\ Len(ws) = Len(ops) + Cardinality(ChangedKeys(acc))
    /\ SubSeq(OpsOf(ws), 1, Len(ops)) = ops
    /\ \A k \in ChangedKeys(acc) :
        \E i \in (Len(ops) + 1)..Len(ws) :
            /\ ws[i].op = "add_storage_at"
            /\ ws[i].key = to_be_bytes(k)
            /\ ws[i].value = to_be_bytes(Unwrap(acc.storage[k]).present_value)

\* the account writes made when the info changed: the info, then the code
\* when the contract changed and code is present
InfoOps(acc) ==
    IF InfoChanged(acc)
    THEN <<"add_account_info">>
            \o (IF CodeChanged(acc) THEN <<"add_account_code">> ELSE <<>>)
    ELSE <<>>

\* C18 as stated: an unmodified account causes no write; a destroyed account
\* causes remove_account and no add_account_info or add_account_code; a
\* non-destroyed account whose info changed gets add_account_info, then
\* add_account_code when its contract changed and code is present; then
\* every changed slot, and no other, is written with its present value
C18_WriteOrderElse ==
    \A t \in Tasks : AfterApplyOk(t) =>
        \A a \in Addrs :
            LET acc == Unwrap(call[t].bundle[a])
                ws == WritesOf(t, a)
            IN IF IsNone(call[t].bundle[a]) THEN ws = <<>>
               ELSE IF acc.status \in {"Loaded", "LoadedNotExisting", "LoadedEmptyEIP161"}
               THEN ws = <<>>
               ELSE IF acc.status \in {"Destroyed", "DestroyedChanged", "DestroyedAgain"}
               THEN WritesAre(ws, <<"remove_account">>, acc)
               ELSE WritesAre(ws, InfoOps(acc), acc)

\* C18 with the info written for destroyed accounts too: an unmodified
\* account causes no write; a destroyed account causes remove_account first;
\* then any account whose info changed, destroyed or not, gets
\* add_account_info, followed by add_account_code when its contract changed
\* and code is present; then every changed slot, and no other, is written
\* with its present value
C18_WriteOrder ==
    \A t \in Tasks : AfterApplyOk(t) =>
        \A a \in Addrs :
            LET acc == Unwrap(call[t].bundle[a])
                ws == WritesOf(t, a)
            IN IF IsNone(call[t].bundle[a]) THEN ws = <<>>
               ELSE IF acc.status \in {"Loaded", "LoadedNotExisting", "LoadedEmptyEIP161"}
               THEN ws = <<>>
               ELSE IF acc.status \in {"Destroyed", "DestroyedChanged", "DestroyedAgain"}
               THEN WritesAre(ws, <<"remove_account">> \o InfoOps(acc), acc)
               ELSE WritesAre(ws, InfoOps(acc), acc)

\* the bundle of a block that destroyed an account and created a contract at
\* its address has been applied: the account was removed, then its info, its
\* code and its changed slot were written
C18_Witness ==
    \E t \in Tasks : \E a \in Addrs :
        /\ AfterApplyOk(t)
        /\ IsSome(call[t].bundle[a])
        /\ Unwrap(call[t].bundle[a]).status = "DestroyedChanged"
        /\ OpsOf(WritesOf(t, a))
                = <<"remove_account", "add_account_info", "add_account_code",
                    "add_storage_at">>

\* the Store st after the writes ws, made in order
RECURSIVE AfterWrites(_, _)
AfterWrites(st, ws) ==
    IF ws = <<>> THEN st ELSE AfterWrites(DoWrite(st, Head(ws)), Tail(ws))

\* the Store calls apply_state_transitions makes
ApplyStoreCalls ==
    {"remove_account", "add_account_info", "add_account_code", "add_storage_at"}

\* C19: when a Store write of apply_state_transitions fails, the call ends
\* with an error at once: the failing write is the next one of the bundle,
\* no Store write follows it, and the Store holds every write made before it
C19_ApplyFailsFast ==
    \A t \in Tasks :
        (Done(t) /\ call[t].failed \in ApplyStoreCalls) =>
            LET c == call[t] IN
            /\ ~c.result.ok
            /\ c.writes # <<>>
            /\ Head(c.writes).op = c.failed
            /\ c.steps[Len(c.steps)] = c.failed
            /\ c.written = OpsOf(c.log)
            /\ store = AfterWrites(Unwrap(c.before), c.log)
            /\ store.block_numbers = Unwrap(c.before).block_numbers
            /\ store.headers = Unwrap(c.before).headers

\* a write of apply_state_transitions has failed after another one had
\* changed the Store
C19_Witness ==
    \E t \in Tasks :
        /\ Done(t)
        /\ call[t].failed \in ApplyStoreCalls
        /\ call[t].log # <<>>
        /\ store # Unwrap(call[t].before)

\* C20: once apply_state_transitions has run, to its end or to a failing
\* write, the backend state holds no transition and no bundle: another
\* apply_state_transitions on it makes no Store write and leaves the Store
\* as it is
C20_ApplyDrainsBundle ==
    \A t \in Tasks :
        (Started(t) /\ Reached(call[t], "apply_state_transitions")
            /\ call[t].pc # "apply") =>
            /\ call[t].state.transition_state = EmptyTransitions
            /\ take_bundle(call[t].state) = EmptyBundle
            /\ \A addrs \in Orders(BundleAddrs(take_bundle(call[t].state))),
                  keys \in KeyOrders(take_bundle(call[t].state)) :
                LET again == apply_state_transitions(call[t].state, store, addrs, keys)
                IN /\ again.writes = <<>>
                   /\ again.store = store

\* a bundle with changes has been applied and its writes are in the Store
C20_Witness ==
    \E t \in Tasks :
        /\ AfterApplyOk(t)
        /\ call[t].bundle # EmptyBundle
        /\ Len(call[t].log) > 1
        /\ call[t].state.cache # EmptyCache

\* the call of task t answers INVALID
Invalid(t) ==
    /\ Done(t)
    /\ call[t].result.ok
    /\ call[t].result.status = "INVALID"

\* the call of task t ends with the error e
Failed(t, e) ==
    /\ Done(t)
    /\ ~call[t].result.ok
    /\ call[t].result.err = e

\* C24: a call that ends with INVALID (a transaction that does not decode,
\* a wrong block hash, wrong blob hashes or a header that does not extend
\* its parent) or with the UnsuportedFork error has made no Store write: the
\* accounts, the code, the storage, the stored blocks and the index are the
\* ones the Store held when the call began
C24_NoWriteOnInvalid ==
    \A t \in Tasks :
        (Invalid(t) \/ Failed(t, "UnsuportedFork")) =>
            /\ call[t].written = <<>>
            /\ call[t].log = <<>>
            /\ store = Unwrap(call[t].before)
            /\ ~Reached(call[t], "execute_tx")
            /\ ~Reached(call[t], "apply_state_transitions")

\* a block has been accepted, and a later call whose header does not extend
\* the header stored at its parent's number has been answered INVALID
C24_Witness ==
    \E t \in Tasks :
        /\ Invalid(t)
        /\ Reached(call[t], "validate_block_header")
        /\ IsSome(store.headers[1])
        /\ store.block_numbers # GenesisStore(None).block_numbers

\* the index entries written by new_payload_v3 (the genesis entry is written
\* at start-up)
IndexedByPayload(st) == st.block_numbers \ GenesisStore(None).block_numbers

\* the Store st holds at number the block whose header hashes to hash
BlockStoredAt(st, hash, number) ==
    /\ number \in DOMAIN st.headers
    /\ IsSome(st.headers[number])
    /\ compute_block_hash(Unwrap(st.headers[number])) = hash
    /\ IsSome(st.bodies[number])

\* C25: in every state of the Store an index entry written by
\* new_payload_v3 comes with the block of that hash stored at that number,
\* and a call that has not applied its state diff completely has not indexed
\* its block
C25_IndexAndBlockTogether ==
    /\ \A e \in IndexedByPayload(store) : BlockStoredAt(store, e[1], e[2])
    /\ \A t \in Tasks :
        (call[t].pc \in {"parent", "execute", "apply"}
            \/ (Done(t) /\ call[t].failed \in {"remove_account", "add_account_info",
                                               "add_account_code", "add_storage_at"})) =>
            (store.block_numbers = Unwrap(call[t].before).block_numbers
                /\ store.headers = Unwrap(call[t].before).headers)

\* the request of the call of task t had been answered VALID before the call
\* began: the Store held its block and its index entry, and the request
\* carries the blob hashes of its transactions
Resubmitted(t) ==
    LET c == call[t]
        hash == c.request.payload.block_hash
        number == c.request.payload.number
    IN /\ Started(t)
       /\ number # 0
       /\ <<hash, number>> \in Unwrap(c.before).block_numbers
       /\ BlockStoredAt(Unwrap(c.before), hash, number)
       /\ Unwrap(Unwrap(c.before).bodies[number]) = c.request.payload.transactions
       /\ c.request.expected_blob_versioned_hashes
            = ConcatBlobHashes(c.request.payload.transactions)

\* C26: a payload already answered VALID that is sent again, with no Store
\* call failing, is answered VALID with the same latestValidHash, and the
\* accounts, the code and the storage stay as they were after the first
\* acceptance
C26_ResubmissionIdempotent ==
    \A t \in Tasks :
        (Resubmitted(t) /\ Done(t) /\ call[t].failed = "") =>
            /\ Valid(t)
            /\ call[t].result.latest_valid_hash = Some(call[t].request.payload.block_hash)
            /\ store.account_infos = Unwrap(call[t].before).account_infos
            /\ store.account_codes = Unwrap(call[t].before).account_codes
            /\ store.storage = Unwrap(call[t].before).storage

\* C27: a payload of number 0 is never answered VALID and never replaces
\* the genesis block: once it has passed the checks made before the parent
\* lookup, the header it is validated against is the one stored at number 0,
\* the validation fails and the answer is INVALID with the hash of that
\* header (SYNCING when no header is stored at number 0); the call makes no
\* Store write
C27_NumberZeroNeverValid ==
    /\ store.headers[0] = Some(GenesisHeader)
    /\ store.bodies[0] = Some(<<>>)
    /\ <<compute_block_hash(GenesisHeader), 0>> \in store.block_numbers
    /\ \A t \in Tasks :
        (Started(t) /\ call[t].request.payload.number = 0) =>
            LET c == call[t]
                stored == Unwrap(c.before).headers[0]
            IN /\ ~Valid(t)
               /\ c.pc \in {"parent", "done"}
               /\ c.written = <<>>
               /\ store = Unwrap(c.before)
               /\ (Done(t) /\ Reached(c, "get_block_header") /\ c.failed = "") =>
                    IF IsSome(stored)
                    THEN /\ Invalid(t)
                         /\ c.parent_header = stored
                         /\ ~validate_block_header(c.block.header, Unwrap(stored))
                         /\ c.result.latest_valid_hash
                                = Some(compute_block_hash(Unwrap(stored)))
                    ELSE c.result = syncing

\* a payload of number 0 whose parent hash is the hash of the genesis header
\* and whose timestamp is after the one of the genesis header has been
\* validated against the genesis header and answered INVALID
C27_Witness ==
    \E t \in Tasks :
        /\ Invalid(t)
        /\ call[t].request.payload.number = 0
        /\ call[t].request.payload.parent_hash = compute_block_hash(GenesisHeader)
        /\ call[t].request.payload.timestamp > GenesisHeader.timestamp
        /\ Reached(call[t], "validate_block_header")
        /\ call[t].parent_header = Some(GenesisHeader)

\* the adapter has just returned from the function named op on the backend
\* state of task t
JustCalled(t, op) == call[t].pc = "session" /\ call[t].session.op = op

\* C21: create_access_list, with the estimate_gas run it ends with, leaves
\* the transitions and the bundle of the backend state as they were, does not
\* change the Store, and an apply_state_transitions that follows makes the
\* writes it would have made without the call
C21_EstimationHasNoEffect ==
    \A t \in Tasks :
        JustCalled(t, "create_access_list") =>
            LET after == call[t].state
                prior == call[t].session.prior
            IN /\ after.transition_state = prior.transition_state
               /\ take_bundle(after) = take_bundle(prior)
               /\ store = Unwrap(call[t].before)
               /\ \A addrs \in Orders(BundleAddrs(take_bundle(after))),
                     keys \in KeyOrders(take_bundle(after)) :
                    /\ BundleWrites(take_bundle(after), addrs, keys)
                        = BundleWrites(take_bundle(prior), addrs, keys)
                    /\ apply_state_transitions(after, store, addrs, keys).store
                        = apply_state_transitions(prior, store, addrs, keys).store

\* create_access_list has made both of its runs for a transaction whose code
\* writes a slot, on a backend state that holds the changes of an executed
\* transaction, which an apply_state_transitions would write
C21_Witness ==
    \E t \in Tasks :
        /\ JustCalled(t, "create_access_list")
        /\ call[t].session.ok
        /\ Len(call[t].session.runs) = 2
        /\ GenericTxTable[call[t].session.tx].op = "sstore"
        /\ call[t].session.access_list # <<>>
        /\ call[t].session.prior.transition_state # EmptyTransitions
        /\ BundleWrites(take_bundle(call[t].state),
                        AscendingAddrs(take_bundle(call[t].state)), AscendingKeys) # <<>>

\* C22: create_access_list runs the backend a second time exactly when the
\* first run, the one with the inspector, returned Success; the second run
\* has the discovered list appended to the transaction's list and its result
\* is the one returned; after a Revert or a Halt the result of the first run
\* is returned; the list returned is in both cases the list of the first run
C22_TwoRunProtocol ==
    \A t \in Tasks :
        JustCalled(t, "create_access_list") =>
            LET s == call[t].session
                env == tx_env_from_generic(GenericTxTable[s.tx], s.nonce)
                first == s.runs[1]
            IN /\ Len(s.runs) \in {1, 2}
               /\ first.mode = "inspect"
               /\ first.access_list = env.access_list
               /\ (first.result # NoExecutionResult) =>
                    /\ Len(s.runs) = 2 <=> first.result.kind = "Success"
                    /\ Len(s.runs) = 1 =>
                        /\ first.result.kind \in {"Revert", "Halt"}
                        /\ s.ok
                        /\ s.result = first.result
                    /\ Len(s.runs) = 2 => s.runs[2].mode = "estimate"
                    /\ (Len(s.runs) = 2 /\ s.ok) =>
                        /\ s.result = s.runs[2].result
                        /\ s.runs[2].access_list
                            = env.access_list \o EnvItems(s.access_list)
                    /\ s.ok =>
                        \E addrs \in Orders(InspectedAddrs(env, s.prior, store)) :
                            s.access_list
                                = create_access_list_inner(env, s.prior, store,
                                                           addrs, 0).access_list

\* the first run has succeeded and found a slot, and the second run, with
\* that slot in its list, has used another amount of gas
C22_Witness ==
    \E t \in Tasks :
        /\ JustCalled(t, "create_access_list")
        /\ call[t].session.ok
        /\ Len(call[t].session.runs) = 2
        /\ call[t].session.access_list # <<>>
        /\ call[t].session.runs[1].result.kind = "Success"
        /\ call[t].session.runs[2].result # call[t].session.runs[1].result
        /\ call[t].session.result = call[t].session.runs[2].result

\* the (address, storage key) entries of an access list
Entries(access_list) ==
    UNION {{<<access_list[i].address, access_list[i].storage_keys[j]>> :
                j \in 1..Len(access_list[i].storage_keys)} :
           i \in 1..Len(access_list)}

\* C23: when the list create_access_list returned is merged into the
\* transaction's own list and create_access_list is run again on the same
\* backend state, every (address, storage key) entry of the list it returns
\* is in the merged list
C23_AccessListFixedPoint ==
    \A t \in Tasks :
        (JustCalled(t, "create_access_list_again") /\ call[t].session.again.ok) =>
            Entries(call[t].session.again.access_list)
                \subseteq Entries(call[t].session.again.merged)

====
